---- MODULE Spec2Model ----
(***************************************************************************)
(* Detection post-processing of streetsweep: box overlap, rotation         *)
(* coordinate mapping, per-class filtering, greedy deduplication, the      *)
(* rotation-invariant YOLO path and the multi-strategy fusion detector.    *)
(*                                                                         *)
(* Numbers.  Confidences are integers in thousandths (900 is 0.9), the    *)
(* area ratios of the filter table are integers in units of 0.0005 (the    *)
(* table holds only multiples of it), an IoU value or threshold is an      *)
(* exact fraction <<num, den>>; comparisons are made by                    *)
(* cross-multiplication, which agrees with the float comparison of the     *)
(* code for the magnitudes used here.                                      *)
(***************************************************************************)
EXTENDS Integers, Sequences, FiniteSets, TLC

VARIABLES
    pc,                   \* position of the caller in the scenario being run
    \* deduplication
    given,                \* the list as the caller built it (history, never changed)
    detections,           \* the caller's list object; sorted in place by deduplication
    iou_threshold,        \* remove_duplicate_detections parameter, <<num, den>>
    filtered_detections,  \* list returned by the deduplication
    again,                \* list returned by deduplicating the returned list
    \* box overlap
    in_bbox1, in_bbox2,   \* arguments given to calculate_iou
    iou,                  \* its return value, <<num, den>>
    \* rotation mapping and class filter
    in_box,               \* a box <<x1, y1, x2, y2>>
    in_angle,             \* rotation angle in degrees
    in_frame,             \* frame.shape, <<height, width>>
    rotated,              \* the box as it lies in the rotated frame
    adjusted,             \* return value of adjust_rotated_coords
    in_class,             \* class name and confidence given to is_likely_trash
    in_confidence,
    likely,               \* return value of is_likely_trash
    \* YOLOModel (rotation-invariant path)
    model,                \* self.model: "loaded" or "None"
    confidence_threshold, \* self.confidence_threshold, in thousandths
    raw,                  \* what the base model did at each pass of the frame
    candidates,           \* the detections handed to the deduplication, as produced
    result,               \* the list detect_trash returned
    \* AdvancedTrashDetector (fusion of three strategies)
    models,               \* keys of self.models: {"primary"} or {}
    primary_results,      \* what the primary model did on the frame
    color_contours,       \* the contours the colour masks gave, in loop order
    shape_contours,       \* the contours the edge map gave, in loop order
    yolo_detections,      \* what each strategy returned
    color_detections,
    shape_detections,
    deduplicated,         \* detect_trash's filtered_detections
    final_detections,     \* the list detect_trash returned
    load_outcomes,        \* what YOLO(model_name) did for each candidate
    constructed,          \* the detector's fields when __init__ returned
    history,              \* the frames given so far and what was returned
    \* PiTrashDetectionSystem and OptimizedPiTrashDetectionSystem; times
    \* are kept as ages, time.time() minus the field, in ticks of 0.5 s
    simulate_motors,      \* self.simulate_motors
    is_connected,         \* arduino_controller.is_connected
    last_detection_age,   \* age of self.last_detection_time, Never when it is 0
    last_stop_age,        \* age of self.last_stop_time, Never when it is 0
    last_command_age,     \* age of arduino_controller.last_command_time
    consecutive_detections, \* self.consecutive_detections
    recent,               \* what the last processed frames held (history)
    controller_calls,     \* the motor operations of the last loop iteration
    motion,               \* the last motor action asked for: "moving" or "stopped"
    \* TrashCollector
    current_session,      \* self.current_session, NoSession for None
    collection_history,   \* self.collection_history
    session_files,        \* the session ids saved under data_dir
    clock,                \* int(time.time()) at the last session start
    returned              \* what the last call returned

dedupVars == <<given, detections, iou_threshold, filtered_detections, again>>

iouVars == <<in_bbox1, in_bbox2, iou>>

rotVars == <<in_box, in_angle, in_frame, rotated, adjusted>>

filterVars == <<in_class, in_confidence, likely>>

yoloVars == <<model, confidence_threshold, raw, candidates, result>>

fusionVars == <<models, primary_results, color_contours, shape_contours,
                yolo_detections, color_detections, shape_detections,
                deduplicated, final_detections,
                load_outcomes, constructed, history>>

piVars == <<simulate_motors, is_connected, last_detection_age, last_stop_age,
            last_command_age, consecutive_detections, recent,
            controller_calls, motion>>

collectorVars == <<current_session, collection_history, session_files,
                   clock, returned>>

hostVars == <<piVars, collectorVars>>

vars == <<pc, dedupVars, iouVars, rotVars, filterVars, yoloVars, fusionVars,
          hostVars>>

\* the variables a scenario leaves alone
notDedup == <<iouVars, rotVars, filterVars, yoloVars, fusionVars, hostVars>>

notIou == <<dedupVars, rotVars, filterVars, yoloVars, fusionVars, hostVars>>

notRot == <<dedupVars, iouVars, filterVars, yoloVars, fusionVars, hostVars>>

notFilter == <<dedupVars, iouVars, yoloVars, fusionVars, hostVars>>

notYolo == <<dedupVars, iouVars, rotVars, filterVars, fusionVars, hostVars>>

\* values of the variables a scenario does not use
IdleDedup ==
    /\ given = <<>>
    /\ detections = <<>>
    /\ iou_threshold = <<1, 2>>
    /\ filtered_detections = <<>>
    /\ again = <<>>

IdleIou == in_bbox1 = <<>> /\ in_bbox2 = <<>> /\ iou = <<>>

IdleRot ==
    /\ in_box = <<>> /\ in_angle = 0 /\ in_frame = <<>>
    /\ rotated = <<>> /\ adjusted = <<>>

IdleFilter == in_class = "" /\ in_confidence = 0 /\ likely = FALSE

IdleYolo ==
    /\ model = "None" /\ confidence_threshold = 0
    /\ raw = <<>> /\ candidates = <<>> /\ result = <<>>

IdleFusion ==
    /\ models = {} /\ primary_results = <<>>
    /\ color_contours = <<>> /\ shape_contours = <<>>
    /\ yolo_detections = <<>> /\ color_detections = <<>> /\ shape_detections = <<>>
    /\ deduplicated = <<>> /\ final_detections = <<>>
    /\ load_outcomes = <<>> /\ constructed = <<>> /\ history = <<>>

IdlePi ==
    /\ simulate_motors = FALSE /\ is_connected = FALSE
    /\ last_detection_age = 0 /\ last_stop_age = 0 /\ last_command_age = 0
    /\ consecutive_detections = 0
    /\ recent = <<>> /\ controller_calls = <<>> /\ motion = ""

IdleCollector ==
    /\ current_session = <<>> /\ collection_history = <<>>
    /\ session_files = {} /\ clock = 0 /\ returned = <<>>

IdleHost == IdlePi /\ IdleCollector

------------------------------------------------------------------------------
(* Small helpers *)

Max(a, b) == IF a >= b THEN a ELSE b

Min(a, b) == IF a <= b THEN a ELSE b

Range(s) == {s[i] : i \in 1..Len(s)}

\* fractions <<n, d>> with d > 0
FracGT(p, q) == p[1] * q[2] > q[1] * p[2]

FracEQ(p, q) == p[1] * q[2] = q[1] * p[2]

Area(b) == (b[3] - b[1]) * (b[4] - b[2])

WellFormed(b) == b[1] < b[3] /\ b[2] < b[4]

------------------------------------------------------------------------------
(* image_utils.calculate_iou: 0.0 is <<0, 1>>, otherwise                   *)
(* <<intersection, union>>.                                                *)

calculate_iou_no_guard(bbox1, bbox2) ==
    LET x1_i == Max(bbox1[1], bbox2[1])
        y1_i == Max(bbox1[2], bbox2[2])
        x2_i == Min(bbox1[3], bbox2[3])
        y2_i == Min(bbox1[4], bbox2[4])
        intersection == (x2_i - x1_i) * (y2_i - y1_i)
        union == Area(bbox1) + Area(bbox2) - intersection
    IN  IF union > 0 THEN <<intersection, union>> ELSE <<0, 1>>

calculate_iou(bbox1, bbox2) ==
    LET x1_i == Max(bbox1[1], bbox2[1])
        y1_i == Max(bbox1[2], bbox2[2])
        x2_i == Min(bbox1[3], bbox2[3])
        y2_i == Min(bbox1[4], bbox2[4])
        intersection == (x2_i - x1_i) * (y2_i - y1_i)
        area1 == (bbox1[3] - bbox1[1]) * (bbox1[4] - bbox1[2])
        area2 == (bbox2[3] - bbox2[1]) * (bbox2[4] - bbox2[2])
        union == area1 + area2 - intersection
    IN  IF x2_i <= x1_i \/ y2_i <= y1_i
        THEN <<0, 1>>
        ELSE IF union > 0 THEN <<intersection, union>> ELSE <<0, 1>>

\* TrashDetector._calculate_iou, the copy kept in the top-level script
TrashDetector_calculate_iou(bbox1, bbox2) ==
    LET x1_i == Max(bbox1[1], bbox2[1])
        y1_i == Max(bbox1[2], bbox2[2])
        x2_i == Min(bbox1[3], bbox2[3])
        y2_i == Min(bbox1[4], bbox2[4])
        intersection == (x2_i - x1_i) * (y2_i - y1_i)
        area1 == (bbox1[3] - bbox1[1]) * (bbox1[4] - bbox1[2])
        area2 == (bbox2[3] - bbox2[1]) * (bbox2[4] - bbox2[2])
        union == area1 + area2 - intersection
    IN  IF x2_i <= x1_i \/ y2_i <= y1_i
        THEN <<0, 1>>
        ELSE IF union > 0 THEN <<intersection, union>> ELSE <<0, 1>>

------------------------------------------------------------------------------
(* list.sort(key=confidence, reverse=True): stable, descending.  An        *)
(* element is inserted behind every element whose confidence is not lower. *)

RECURSIVE InsertDesc(_, _)
InsertDesc(sorted, d) ==
    IF sorted = <<>> THEN <<d>>
    ELSE IF Head(sorted).confidence >= d.confidence
         THEN <<Head(sorted)>> \o InsertDesc(Tail(sorted), d)
         ELSE <<d>> \o sorted

RECURSIVE SortByConfidenceUnstable(_)
SortByConfidenceUnstable(s) ==
    LET RECURSIVE Ins(_, _)
        Ins(sorted, d) ==
            IF sorted = <<>> THEN <<d>>
            ELSE IF Head(sorted).confidence > d.confidence
                 THEN <<Head(sorted)>> \o Ins(Tail(sorted), d)
                 ELSE <<d>> \o sorted
    IN  IF s = <<>> THEN <<>>
        ELSE Ins(SortByConfidenceUnstable(SubSeq(s, 1, Len(s) - 1)), s[Len(s)])

RECURSIVE SortByConfidenceAscending(_)
SortByConfidenceAscending(s) ==
    LET RECURSIVE Ins(_, _)
        Ins(sorted, d) ==
            IF sorted = <<>> THEN <<d>>
            ELSE IF Head(sorted).confidence <= d.confidence
                 THEN <<Head(sorted)>> \o Ins(Tail(sorted), d)
                 ELSE <<d>> \o sorted
    IN  IF s = <<>> THEN <<>>
        ELSE Ins(SortByConfidenceAscending(SubSeq(s, 1, Len(s) - 1)), s[Len(s)])

RECURSIVE SortByConfidence(_)
SortByConfidence(s) ==
    IF s = <<>> THEN <<>>
    ELSE InsertDesc(SortByConfidence(SubSeq(s, 1, Len(s) - 1)), s[Len(s)])

------------------------------------------------------------------------------
(* image_utils.remove_duplicate_detections.  IsDuplicate is the inner loop *)
(* over the accepted list, GreedyFilter the outer loop over the sorted     *)
(* list.                                                                   *)

FracGE(p, q) == p[1] * q[2] >= q[1] * p[2]

IsDuplicateAtThreshold(detection, accepted, threshold) ==
    \E k \in 1..Len(accepted) :
        /\ FracGE(calculate_iou(detection.bbox, accepted[k].bbox), threshold)
        /\ detection.class = accepted[k].class

IsDuplicateAnyClass(detection, accepted, threshold) ==
    \E k \in 1..Len(accepted) :
        FracGT(calculate_iou(detection.bbox, accepted[k].bbox), threshold)

IsDuplicate(detection, accepted, threshold) ==
    \E k \in 1..Len(accepted) :
        /\ FracGT(calculate_iou(detection.bbox, accepted[k].bbox), threshold)
        /\ detection.class = accepted[k].class

\* the sorted list returned whole, nothing suppressed
KeepEverything(sorted, accepted, threshold) == accepted \o sorted

RECURSIVE GreedyFilter(_, _, _)
GreedyFilter(sorted, accepted, threshold) ==
    IF sorted = <<>> THEN accepted
    ELSE GreedyFilter(Tail(sorted),
                      IF IsDuplicate(Head(sorted), accepted, threshold)
                      THEN accepted
                      ELSE Append(accepted, Head(sorted)),
                      threshold)

\* the caller's list filtered in place: the suppressed detections are gone
FilteredInPlace(dets) ==
    IF Len(dets) <= 1 THEN dets
    ELSE GreedyFilter(SortByConfidence(dets), <<>>, <<1, 2>>)

\* the list the caller passed, as it is after the call (sorted in place
\* unless the early return is taken)
SortedInPlace(dets) == IF Len(dets) <= 1 THEN dets ELSE SortByConfidence(dets)

remove_duplicate_detections(dets, threshold) ==
    IF Len(dets) <= 1 THEN dets
    ELSE GreedyFilter(SortByConfidence(dets), <<>>, threshold)

\* TrashDetector._remove_duplicate_detections: same loop, threshold 0.5 fixed
TrashDetector_IsDuplicate(detection, accepted) ==
    \E k \in 1..Len(accepted) :
        /\ FracGT(TrashDetector_calculate_iou(detection.bbox, accepted[k].bbox), <<1, 2>>)
        /\ detection.class = accepted[k].class

RECURSIVE TrashDetector_GreedyFilter(_, _)
TrashDetector_GreedyFilter(sorted, accepted) ==
    IF sorted = <<>> THEN accepted
    ELSE TrashDetector_GreedyFilter(Tail(sorted),
                      IF TrashDetector_IsDuplicate(Head(sorted), accepted)
                      THEN accepted
                      ELSE Append(accepted, Head(sorted)))

TrashDetector_remove_duplicate_detections(dets) ==
    IF Len(dets) <= 1 THEN dets
    ELSE TrashDetector_GreedyFilter(SortByConfidence(dets), <<>>)

------------------------------------------------------------------------------
(* Deduplication scenario: a caller builds a list, deduplicates it, and    *)
(* deduplicates the returned list once more.                               *)

MaxLen == 3

Detection(class, confidence, bbox, rotation) ==
    [class |-> class, confidence |-> confidence, bbox |-> bbox,
     center |-> <<(bbox[1] + bbox[3]) \div 2, (bbox[2] + bbox[4]) \div 2>>,
     rotation |-> rotation]

\* Candidate detections.  They hold: the spec's two-cup scenario (1, 2), an
\* identical box of another class with the same confidence (3), a box whose
\* IoU with (1) is exactly 1/2 (4), a chain 1 - 5 - 6 in which 5 overlaps
\* both 1 and 6 above 1/2 while 1 and 6 overlap at exactly 1/4, and a
\* detection equal to (2) but for its rotation tag (7).
DedupPool ==
    << Detection("cup",    900, <<10, 10, 60, 60>>, 0),
       Detection("cup",    600, <<12, 12, 58, 58>>, 0),
       Detection("bottle", 900, <<10, 10, 60, 60>>, 0),
       Detection("cup",    900, <<10, 10, 60, 35>>, 0),
       Detection("cup",    750, <<25, 10, 75, 60>>, 0),
       Detection("cup",    700, <<40, 10, 90, 60>>, 0),
       Detection("cup",    600, <<12, 12, 58, 58>>, 90),
       Detection("bottle", 600, <<200, 200, 240, 300>>, 0) >>

Thresholds == { <<1, 2>>, <<1, 4>>, <<0, 1>> }

\* lists of pairwise distinct candidates (the function reads only class,
\* confidence and bbox, so an exact copy behaves as candidate 7 does)
InputLists ==
    { [i \in 1..Len(ix) |-> DedupPool[ix[i]]] :
        ix \in { f \in UNION { [1..n -> 1..Len(DedupPool)] : n \in 0..MaxLen } :
                   \A i, j \in DOMAIN f : i # j => f[i] # f[j] } }

InitDedup ==
    /\ pc = "call"
    /\ given \in InputLists
    /\ detections = given
    /\ iou_threshold \in Thresholds
    /\ filtered_detections = <<>>
    /\ again = <<>>
    /\ IdleIou /\ IdleRot /\ IdleFilter /\ IdleYolo /\ IdleFusion /\ IdleHost

\* filtered = remove_duplicate_detections(detections, iou_threshold)
Deduplicate ==
    /\ pc = "call"
    /\ filtered_detections' = remove_duplicate_detections(detections, iou_threshold)
    /\ detections' = SortedInPlace(detections)
    /\ pc' = "returned"
    /\ UNCHANGED <<given, iou_threshold, again, notDedup>>

\* filtered = TrashDetector._remove_duplicate_detections(detections)
TrashDetectorDeduplicate ==
    /\ pc = "call"
    /\ filtered_detections' = TrashDetector_remove_duplicate_detections(detections)
    /\ detections' = SortedInPlace(detections)
    /\ pc' = "returned_td"
    /\ UNCHANGED <<given, iou_threshold, again, notDedup>>

\* again = remove_duplicate_detections(list(filtered), iou_threshold): the
\* list passed is a copy, so that the first return value stays as returned
DeduplicateAgain ==
    /\ pc = "returned"
    /\ again' = remove_duplicate_detections(filtered_detections, iou_threshold)
    /\ pc' = "twice"
    /\ UNCHANGED <<given, detections, iou_threshold, filtered_detections, notDedup>>

TrashDetectorDeduplicateAgain ==
    /\ pc = "returned_td"
    /\ again' = TrashDetector_remove_duplicate_detections(filtered_detections)
    /\ pc' = "twice_td"
    /\ UNCHANGED <<given, detections, iou_threshold, filtered_detections, notDedup>>

NextDedup ==
    \/ Deduplicate
    \/ TrashDetectorDeduplicate
    \/ DeduplicateAgain
    \/ TrashDetectorDeduplicateAgain

SpecDedup == InitDedup /\ [][NextDedup]_vars

------------------------------------------------------------------------------
(* Box overlap scenario: calculate_iou applied to two well-formed boxes    *)
(* with corners on the grid 0..MaxCoord.                                   *)

MaxCoord == 3

GridBoxes ==
    { <<x1, y1, x2, y2>> : x1 \in 0..MaxCoord, y1 \in 0..MaxCoord,
                           x2 \in 0..MaxCoord, y2 \in 0..MaxCoord }

Boxes == { b \in GridBoxes : WellFormed(b) }

InitIou ==
    /\ pc = "call"
    /\ in_bbox1 \in Boxes
    /\ in_bbox2 \in Boxes
    /\ iou = <<>>
    /\ IdleDedup /\ IdleRot /\ IdleFilter /\ IdleYolo /\ IdleFusion /\ IdleHost

CalculateIou ==
    /\ pc = "call"
    /\ iou' = calculate_iou(in_bbox1, in_bbox2)
    /\ pc' = "returned"
    /\ UNCHANGED <<in_bbox1, in_bbox2, notIou>>

TrashDetectorCalculateIou ==
    /\ pc = "call"
    /\ iou' = TrashDetector_calculate_iou(in_bbox1, in_bbox2)
    /\ pc' = "returned_td"
    /\ UNCHANGED <<in_bbox1, in_bbox2, notIou>>

NextIou == CalculateIou \/ TrashDetectorCalculateIou

SpecIou == InitIou /\ [][NextIou]_vars

------------------------------------------------------------------------------
(* image_utils.rotate_image and adjust_rotated_coords.                     *)

\* where cv2.rotate puts the pixel (x, y) of a width x height image
rotate_image(x, y, angle, width, height) ==
    IF angle = 90 THEN <<height - 1 - y, x>>           \* ROTATE_90_CLOCKWISE
    ELSE IF angle = 180 THEN <<width - 1 - x, height - 1 - y>>
    ELSE IF angle = 270 THEN <<y, width - 1 - x>>      \* ROTATE_90_COUNTERCLOCKWISE
    ELSE <<x, y>>

adjust_rotated_coords_swapped(x1, y1, x2, y2, angle, orig_width, orig_height) ==
    IF angle = 270 THEN <<y1, orig_height - x2, y2, orig_height - x1>>
    ELSE IF angle = 180
         THEN <<orig_width - x2, orig_height - y2, orig_width - x1, orig_height - y1>>
    ELSE IF angle = 90 THEN <<orig_width - y2, x1, orig_width - y1, x2>>
    ELSE <<x1, y1, x2, y2>>

\* the quarter turns mirrored without exchanging the axes
adjust_rotated_coords_unswapped(x1, y1, x2, y2, angle, orig_width, orig_height) ==
    IF angle = 90 THEN <<x1, orig_height - y2, x2, orig_height - y1>>
    ELSE IF angle = 180
         THEN <<orig_width - x2, orig_height - y2, orig_width - x1, orig_height - y1>>
    ELSE IF angle = 270 THEN <<orig_width - x2, y1, orig_width - x1, y2>>
    ELSE <<x1, y1, x2, y2>>

adjust_rotated_coords_width(x1, y1, x2, y2, angle, orig_width, orig_height) ==
    IF angle = 90 THEN <<y1, orig_width - x2, y2, orig_width - x1>>
    ELSE IF angle = 180
         THEN <<orig_width - x2, orig_height - y2, orig_width - x1, orig_height - y1>>
    ELSE IF angle = 270 THEN <<orig_width - y2, x1, orig_width - y1, x2>>
    ELSE <<x1, y1, x2, y2>>

adjust_rotated_coords(x1, y1, x2, y2, angle, orig_width, orig_height) ==
    IF angle = 90 THEN <<y1, orig_height - x2, y2, orig_height - x1>>
    ELSE IF angle = 180
         THEN <<orig_width - x2, orig_height - y2, orig_width - x1, orig_height - y1>>
    ELSE IF angle = 270 THEN <<orig_width - y2, x1, orig_width - y1, x2>>
    ELSE <<x1, y1, x2, y2>>

(* Rotation scenario: a box of the original frame is carried into the      *)
(* rotated frame with its pixels and mapped back; or a box is mapped back  *)
(* directly.                                                               *)

MaxSide == 3

Angles == {0, 90, 180, 270, 45}

SetMin(S) == CHOOSE m \in S : \A n \in S : m <= n

SetMax(S) == CHOOSE m \in S : \A n \in S : m >= n

\* the pixels of a box: columns x1..x2-1, rows y1..y2-1
Pixels(b) == { <<x, y>> : x \in b[1]..(b[3] - 1), y \in b[2]..(b[4] - 1) }

\* the box around a non-empty set of pixels
BoxAround(P) ==
    << SetMin({q[1] : q \in P}), SetMin({q[2] : q \in P}),
       SetMax({q[1] : q \in P}) + 1, SetMax({q[2] : q \in P}) + 1 >>

\* the box that holds, in the rotated frame, the pixels of box b
RotatedBox(b, angle, width, height) ==
    BoxAround({ rotate_image(q[1], q[2], angle, width, height) : q \in Pixels(b) })

InFrame(b, width, height) ==
    /\ WellFormed(b)
    /\ 0 <= b[1] /\ b[3] <= width
    /\ 0 <= b[2] /\ b[4] <= height

InitRot ==
    /\ pc = "call"
    /\ in_frame \in { <<h, w>> : h \in 1..MaxSide, w \in 1..MaxSide }
    /\ in_angle \in Angles
    /\ in_box \in { b \in GridBoxes : WellFormed(b) }
    /\ rotated = <<>>
    /\ adjusted = <<>>
    /\ IdleDedup /\ IdleIou /\ IdleFilter /\ IdleYolo /\ IdleFusion /\ IdleHost

\* adjust_rotated_coords(x1, y1, x2, y2, angle, frame.shape[1], frame.shape[0])
AdjustCoords ==
    /\ pc = "call"
    /\ adjusted' = adjust_rotated_coords(in_box[1], in_box[2], in_box[3], in_box[4],
                                         in_angle, in_frame[2], in_frame[1])
    /\ pc' = "adjusted"
    /\ UNCHANGED <<in_box, in_angle, in_frame, rotated, notRot>>

\* rotate_image(frame, angle): the box goes where its pixels go
RotateBox ==
    /\ pc = "call"
    /\ InFrame(in_box, in_frame[2], in_frame[1])
    /\ rotated' = RotatedBox(in_box, in_angle, in_frame[2], in_frame[1])
    /\ pc' = "rotated"
    /\ UNCHANGED <<in_box, in_angle, in_frame, adjusted, notRot>>

AdjustBack ==
    /\ pc = "rotated"
    /\ adjusted' = adjust_rotated_coords(rotated[1], rotated[2], rotated[3], rotated[4],
                                         in_angle, in_frame[2], in_frame[1])
    /\ pc' = "roundtrip"
    /\ UNCHANGED <<in_box, in_angle, in_frame, rotated, notRot>>

NextRot == AdjustCoords \/ RotateBox \/ AdjustBack

SpecRot == InitRot /\ [][NextRot]_vars

------------------------------------------------------------------------------
(* config.DETECTION_FILTERS: min_area and max_area in units of 0.0005 of   *)
(* the frame area (1 is 0.0005, 400 is 0.2), min_confidence in thousandths.*)

FilterParams(min_area, max_area, min_confidence) ==
    [min_area |-> min_area, max_area |-> max_area, min_confidence |-> min_confidence]

DETECTION_FILTERS ==
    ("bottle" :> FilterParams(1, 400, 300)) @@
    ("cup" :> FilterParams(2, 300, 300)) @@
    ("bowl" :> FilterParams(2, 300, 300)) @@
    ("wine glass" :> FilterParams(2, 300, 300)) @@
    ("banana" :> FilterParams(1, 200, 400)) @@
    ("apple" :> FilterParams(1, 200, 400)) @@
    ("orange" :> FilterParams(1, 200, 400)) @@
    ("broccoli" :> FilterParams(1, 200, 400)) @@
    ("carrot" :> FilterParams(1, 200, 400)) @@
    ("sandwich" :> FilterParams(2, 200, 400)) @@
    ("hot dog" :> FilterParams(2, 200, 400)) @@
    ("pizza" :> FilterParams(2, 200, 400)) @@
    ("donut" :> FilterParams(2, 200, 400)) @@
    ("cake" :> FilterParams(2, 200, 400)) @@
    ("book" :> FilterParams(4, 400, 500)) @@
    ("frisbee" :> FilterParams(4, 400, 400)) @@
    ("sports ball" :> FilterParams(4, 400, 400)) @@
    ("tennis racket" :> FilterParams(4, 400, 400)) @@
    ("skateboard" :> FilterParams(4, 400, 400)) @@
    ("surfboard" :> FilterParams(4, 400, 400)) @@
    ("fork" :> FilterParams(1, 100, 400)) @@
    ("knife" :> FilterParams(1, 100, 400)) @@
    ("spoon" :> FilterParams(1, 100, 400)) @@
    ("tie" :> FilterParams(4, 300, 500)) @@
    ("handbag" :> FilterParams(4, 300, 500)) @@
    ("suitcase" :> FilterParams(4, 300, 500)) @@
    ("umbrella" :> FilterParams(4, 300, 500)) @@
    ("backpack" :> FilterParams(4, 300, 500)) @@
    ("chair" :> FilterParams(20, 1000, 600)) @@
    ("couch" :> FilterParams(20, 1000, 600)) @@
    ("potted plant" :> FilterParams(20, 1000, 600)) @@
    ("bed" :> FilterParams(20, 1000, 600)) @@
    ("dining table" :> FilterParams(20, 1000, 600)) @@
    ("toilet" :> FilterParams(20, 1000, 600)) @@
    ("default" :> FilterParams(1, 400, 300))

\* DETECTION_FILTERS.get(class_name, DETECTION_FILTERS['default'])
FilterParamsOf(class_name) ==
    IF class_name \in DOMAIN DETECTION_FILTERS
    THEN DETECTION_FILTERS[class_name]
    ELSE DETECTION_FILTERS["default"]

(* detection_filters.is_likely_trash; frame is frame.shape, of positive    *)
(* area.  min_area < area / frame_area is compared as                      *)
(* min_area * frame_area < 2000 * area.                                   *)

is_likely_trash_inclusive(class_name, confidence, x1, y1, x2, y2, frame) ==
    LET area == (x2 - x1) * (y2 - y1)
        frame_area == frame[1] * frame[2]
        filter_params == FilterParamsOf(class_name)
    IN  /\ filter_params.min_area * frame_area <= 2000 * area
        /\ 2000 * area <= filter_params.max_area * frame_area
        /\ confidence >= filter_params.min_confidence

is_likely_trash(class_name, confidence, x1, y1, x2, y2, frame) ==
    LET width == x2 - x1
        height == y2 - y1
        area == width * height
        frame_area == frame[1] * frame[2]
        filter_params == FilterParamsOf(class_name)
        min_area == filter_params.min_area
        max_area == filter_params.max_area
        min_confidence == filter_params.min_confidence
    IN  /\ min_area * frame_area < 2000 * area
        /\ 2000 * area < max_area * frame_area
        /\ confidence > min_confidence

(* Class filter scenario.  The boxes put the relative area on, just inside *)
(* and just outside the bounds of the classes drawn; "person" has no entry *)
(* in the table.                                                           *)

FilterFrames == { <<480, 640>>, <<100, 100>> }

FilterClasses == {"bottle", "cup", "chair", "fork", "person"}

FilterConfidences == {290, 300, 310, 400, 410, 600, 610, 800}

FilterBoxes ==
    { <<100, 100, 200, 200>>,     \* the spec's scenario
      <<0, 0, 5, 1>>, <<0, 0, 6, 1>>, <<0, 0, 4, 1>>,      \* 0.0005 of 100 x 100
      <<0, 0, 10, 1>>, <<0, 0, 11, 1>>,                    \* 0.001
      <<0, 0, 50, 40>>, <<0, 0, 50, 41>>,                  \* 0.2
      <<0, 0, 50, 30>>, <<0, 0, 50, 10>>, <<0, 0, 10, 10>>,\* 0.15, 0.05, 0.01
      <<0, 0, 256, 240>>, <<0, 0, 255, 240>>,              \* 0.2 of 640 x 480
      <<0, 0, 64, 48>>, <<0, 0, 65, 48>>,                  \* 0.01 of 640 x 480
      <<0, 0, 480, 320>>,                                  \* 0.5 of 640 x 480
      <<10, 10, 10, 30>> }                                 \* no area

InitFilter ==
    /\ pc = "call"
    /\ in_frame \in FilterFrames
    /\ in_class \in FilterClasses
    /\ in_confidence \in FilterConfidences
    /\ in_box \in FilterBoxes
    /\ likely = FALSE
    /\ in_angle = 0 /\ rotated = <<>> /\ adjusted = <<>>
    /\ IdleDedup /\ IdleIou /\ IdleYolo /\ IdleFusion /\ IdleHost

IsLikelyTrash ==
    /\ pc = "call"
    /\ likely' = is_likely_trash(in_class, in_confidence,
                                 in_box[1], in_box[2], in_box[3], in_box[4], in_frame)
    /\ pc' = "filtered"
    /\ UNCHANGED <<in_class, in_confidence, rotVars, notFilter>>

NextFilter == IsLikelyTrash

SpecFilter == InitFilter /\ [][NextFilter]_vars

------------------------------------------------------------------------------
(* models/yolo_model.py: YOLOModel.                                        *)
(*                                                                         *)
(* The base model returns float coordinates.  A raw box is                 *)
(* [cls, conf, xyxy] with xyxy in half pixels (201 is 100.5), so that the  *)
(* int() taken when a detection is stored is a real truncation.  The       *)
(* filters work on the float values: they are given the half-pixel         *)
(* coordinates together with the frame shape in half pixels, which leaves  *)
(* every area ratio as it is.                                              *)

TRASH_CLASSES ==
    { "bottle", "cup", "bowl", "banana", "apple", "sandwich", "orange",
      "broccoli", "carrot", "hot dog", "pizza", "donut", "cake", "book",
      "frisbee", "sports ball", "tennis racket", "skateboard", "surfboard",
      "wine glass", "fork", "knife", "spoon", "tie", "handbag", "suitcase",
      "umbrella", "backpack", "chair", "couch", "potted plant", "bed",
      "dining table", "toilet" }

ROTATION_ANGLES == <<90, 180, 270>>

\* config.ROTATION_PENALTY = 0.9, in thousandths
ROTATION_PENALTY == 900

\* the default of remove_duplicate_detections' iou_threshold parameter
DefaultIouThreshold == <<1, 2>>

RawBox(cls, conf, xyxy) == [cls |-> cls, conf |-> conf, xyxy |-> xyxy]

\* int(v) of a coordinate v given in half pixels: truncation toward zero
IntOf(v) == IF v >= 0 THEN v \div 2 ELSE -((-v) \div 2)

\* int((a + b) // 2) of two coordinates given in half pixels
IntMid(a, b) == (a + b) \div 4

\* frame.shape in half pixels
HalfPixels(frame) == <<2 * frame[1], 2 * frame[2]>>

\* the penalty taken twice
PenalisedTwice(conf) == (((conf * ROTATION_PENALTY) \div 1000) * ROTATION_PENALTY) \div 1000

\* float(confidence * ROTATION_PENALTY)
Penalised(conf) == (conf * ROTATION_PENALTY) \div 1000

\* the two conditions of _process_detections, lines 91 and 93
KeepsTooMuch(box, frame, threshold) ==
    /\ box.conf > threshold
    /\ is_likely_trash(box.cls, box.conf, box.xyxy[1], box.xyxy[2],
                       box.xyxy[3], box.xyxy[4], HalfPixels(frame))

Keeps(box, frame, threshold) ==
    /\ box.cls \in TRASH_CLASSES
    /\ box.conf > threshold
    /\ is_likely_trash(box.cls, box.conf, box.xyxy[1], box.xyxy[2],
                       box.xyxy[3], box.xyxy[4], HalfPixels(frame))

\* YOLOModel._process_detections(results, frame)
process_detections(results, frame, threshold) ==
    LET kept == SelectSeq(results, LAMBDA box : Keeps(box, frame, threshold))
    IN  [i \in 1..Len(kept) |->
            [class |-> kept[i].cls,
             confidence |-> kept[i].conf,
             bbox |-> <<IntOf(kept[i].xyxy[1]), IntOf(kept[i].xyxy[2]),
                        IntOf(kept[i].xyxy[3]), IntOf(kept[i].xyxy[4])>>,
             center |-> <<IntMid(kept[i].xyxy[1], kept[i].xyxy[3]),
                          IntMid(kept[i].xyxy[2], kept[i].xyxy[4])>>,
             rotation |-> 0]]

\* adjust_rotated_coords(x1, y1, x2, y2, angle, frame.shape[1], frame.shape[0])
Adjusted(box, angle, frame) ==
    adjust_rotated_coords(box.xyxy[1], box.xyxy[2], box.xyxy[3], box.xyxy[4],
                          angle, 2 * frame[2], 2 * frame[1])

\* the two conditions of _detect_rotated_objects, lines 126 and 132
KeepsRotated(box, angle, frame, threshold) ==
    LET adj == Adjusted(box, angle, frame)
    IN  /\ box.cls \in TRASH_CLASSES
        /\ box.conf > threshold
        /\ is_likely_trash(box.cls, box.conf, adj[1], adj[2], adj[3], adj[4],
                           HalfPixels(frame))

\* one turn of the loop of _detect_rotated_objects: the detections of one
\* angle; an exception raised by the model is caught and the angle skipped
rotated_pass(outcome, angle, frame, threshold) ==
    IF outcome.status # "ok" THEN <<>>
    ELSE LET kept == SelectSeq(outcome.boxes,
                               LAMBDA box : KeepsRotated(box, angle, frame, threshold))
         IN  [i \in 1..Len(kept) |->
                LET adj == Adjusted(kept[i], angle, frame)
                IN  [class |-> kept[i].cls,
                     confidence |-> Penalised(kept[i].conf),
                     bbox |-> <<IntOf(adj[1]), IntOf(adj[2]), IntOf(adj[3]), IntOf(adj[4])>>,
                     center |-> <<IntMid(adj[1], adj[3]), IntMid(adj[2], adj[4])>>,
                     rotation |-> angle]]

\* YOLOModel._detect_rotated_objects(frame); outcomes[angle] is what the
\* model did on the frame rotated by angle
detect_rotated_objects(outcomes, frame, threshold) ==
    rotated_pass(outcomes[ROTATION_ANGLES[1]], ROTATION_ANGLES[1], frame, threshold)
    \o rotated_pass(outcomes[ROTATION_ANGLES[2]], ROTATION_ANGLES[2], frame, threshold)
    \o rotated_pass(outcomes[ROTATION_ANGLES[3]], ROTATION_ANGLES[3], frame, threshold)

(* Rotation-invariant detection scenario: one 640 x 480 frame is given to *)
(* YOLOModel.detect_trash; the base model returns, at each of the four     *)
(* passes, a list of raw boxes or raises.  At most MaxRaw raw boxes are    *)
(* returned over the four passes.                                          *)

MaxRaw == 3

Passes == {0, 90, 180, 270}

\* Raw boxes (coordinates in half pixels), in the order the model gives
\* them, by descending confidence: a class that is not tracked (1), a box
\* of the frame turned by 90 degrees that maps back 30 pixels to the right
\* of (3), so that it overlaps (3) and (7), which do not overlap each other
\* (2), a bottle that passes (3), a bottle whose area is exactly 0.2 of the
\* frame (4), a bottle half a pixel wide and 400 pixels high, from x = 100
\* to x = 100.5 (5), a cup from x = 100.5 to x = 201.5 (6), and a bottle 60
\* pixels to the right of (3) whose confidence is the default threshold (7).
RawPool ==
    << RawBox("person", 900, <<200, 200, 400, 400>>),
       RawBox("bottle", 850, <<560, 260, 760, 460>>),
       RawBox("bottle", 800, <<200, 200, 400, 400>>),
       RawBox("bottle", 800, <<0, 0, 512, 480>>),
       RawBox("bottle", 800, <<200, 40, 201, 840>>),
       RawBox("cup",    510, <<201, 200, 403, 400>>),
       RawBox("bottle", 500, <<320, 200, 520, 400>>) >>

\* the elements of a pool at the indices I, in the order of the pool
SubSeqAt(pool, I) ==
    [k \in 1..Cardinality(I) |->
        pool[CHOOSE i \in I : Cardinality({ j \in I : j < i }) = k - 1]]

\* the subsequences of at most n elements of a pool
SubSeqsOf(pool, n) ==
    { SubSeqAt(pool, I) : I \in { J \in SUBSET (1..Len(pool)) : Cardinality(J) <= n } }

\* what one call of the model can return: at most n boxes of the pool
RawLists(n) == SubSeqsOf(RawPool, n)

\* what one call of the base model can do
Outcomes(n) ==
    { [status |-> "raise", boxes |-> <<>>] }
    \cup { [status |-> "ok", boxes |-> b] : b \in RawLists(n) }

NotRun == [status |-> "skipped", boxes |-> <<>>]

InitYolo ==
    /\ pc = "call"
    /\ model \in {"loaded", "None"}
    /\ confidence_threshold \in {500, 300}
    /\ in_frame = <<480, 640>>
    /\ raw = [a \in Passes |-> NotRun]
    /\ candidates = <<>>
    /\ result = <<>>
    /\ in_box = <<>> /\ in_angle = 0 /\ rotated = <<>> /\ adjusted = <<>>
    /\ IdleDedup /\ IdleIou /\ IdleFilter /\ IdleFusion /\ IdleHost

\* YOLOModel.detect_trash(frame) with no model loaded
DetectTrashNoModel ==
    /\ pc = "call"
    /\ model = "None"
    /\ result' = <<>>
    /\ pc' = "done"
    /\ UNCHANGED <<model, confidence_threshold, raw, candidates, notYolo>>

\* YOLOModel.detect_trash(frame): the model raises on the frame itself
DetectTrashRaises ==
    /\ pc = "call"
    /\ model = "loaded"
    /\ raw' = [a \in Passes |->
                 IF a = 0 THEN [status |-> "raise", boxes |-> <<>>] ELSE NotRun]
    /\ result' = <<>>
    /\ pc' = "done"
    /\ UNCHANGED <<model, confidence_threshold, candidates, notYolo>>

\* YOLOModel.detect_trash(frame): the model answers on the frame itself
DetectTrash ==
    /\ pc = "call"
    /\ model = "loaded"
    /\ \E b0 \in RawLists(MaxRaw) :
       \E o90 \in Outcomes(MaxRaw - Len(b0)) :
       \E o180 \in Outcomes(MaxRaw - Len(b0) - Len(o90.boxes)) :
       \E o270 \in Outcomes(MaxRaw - Len(b0) - Len(o90.boxes) - Len(o180.boxes)) :
          LET outcomes == [a \in Passes |->
                             IF a = 0 THEN [status |-> "ok", boxes |-> b0]
                             ELSE IF a = 90 THEN o90
                             ELSE IF a = 180 THEN o180 ELSE o270]
              dets == process_detections(b0, in_frame, confidence_threshold)
                      \o detect_rotated_objects(outcomes, in_frame, confidence_threshold)
          IN  /\ raw' = outcomes
              /\ candidates' = dets
              /\ result' = remove_duplicate_detections(dets, DefaultIouThreshold)
    /\ pc' = "done"
    /\ UNCHANGED <<model, confidence_threshold, notYolo>>

NextYolo == DetectTrashNoModel \/ DetectTrashRaises \/ DetectTrash

SpecYolo == InitYolo /\ [][NextYolo]_vars

------------------------------------------------------------------------------
(* AdvancedTrashDetector (models/advanced_detector.py)                     *)
(*                                                                         *)
(* Three strategies look at the frame: the primary model, the colour masks *)
(* and the edge map.  What the image operations of OpenCV find is an input *)
(* of the model: the primary model gives raw boxes (half pixels, as        *)
(* above), the colour masks and the edge map give contours, each with its  *)
(* bounding rectangle (x, y, w, h) in pixels, its contourArea, and the     *)
(* outcome of the test made on its region of interest.                     *)

\* the local set trash_classes of _detect_with_yolo
trash_classes ==
    { "bottle", "cup", "wine glass", "bowl", "fork", "knife", "spoon",
      "banana", "apple", "orange", "sandwich", "hot dog", "pizza", "donut",
      "cake", "book", "handbag", "backpack", "umbrella", "tie", "frisbee",
      "sports ball", "skateboard", "tennis racket", "cell phone", "laptop",
      "mouse", "remote", "keyboard", "tv", "clock", "toaster", "microwave",
      "oven", "refrigerator", "scissors", "teddy bear", "toothbrush",
      "hair drier" }

\* the local table min_confidence of _is_valid_trash_detection, in thousandths
min_confidence ==
    ("cup" :> 700) @@ ("bottle" :> 750) @@ ("bowl" :> 700)
    @@ ("fork" :> 800) @@ ("knife" :> 800) @@ ("spoon" :> 800)
    @@ ("banana" :> 800) @@ ("apple" :> 800) @@ ("orange" :> 800)
    @@ ("sandwich" :> 800) @@ ("hot dog" :> 800) @@ ("pizza" :> 800)
    @@ ("donut" :> 800) @@ ("cake" :> 800) @@ ("book" :> 800)
    @@ ("handbag" :> 850) @@ ("backpack" :> 850) @@ ("umbrella" :> 850)
    @@ ("suitcase" :> 850) @@ ("toothbrush" :> 800) @@ ("hair drier" :> 800)
    @@ ("frisbee" :> 850) @@ ("sports ball" :> 850) @@ ("skateboard" :> 850)
    @@ ("tennis racket" :> 850) @@ ("cell phone" :> 900) @@ ("laptop" :> 900)
    @@ ("mouse" :> 850) @@ ("remote" :> 850) @@ ("keyboard" :> 850)
    @@ ("tv" :> 900) @@ ("clock" :> 850) @@ ("toaster" :> 900)
    @@ ("microwave" :> 900) @@ ("oven" :> 900) @@ ("refrigerator" :> 900)
    @@ ("scissors" :> 850) @@ ("teddy bear" :> 800) @@ ("tie" :> 800)

\* a default of 0.8 for the classes the table does not list
required_conf_lenient(class_name) ==
    IF class_name \in DOMAIN min_confidence THEN min_confidence[class_name] ELSE 800

\* min_confidence.get(class_name, 0.85)
required_conf(class_name) ==
    IF class_name \in DOMAIN min_confidence THEN min_confidence[class_name] ELSE 850

\* AdvancedTrashDetector._is_valid_trash_detection; frame is frame.shape in
\* the unit of the coordinates.  0.002 is 2/1000 and 0.15 is 15/100; the
\* aspect ratio width / height is compared with 0.2 and 5.0 (the area test
\* has already rejected a box of no height).
is_valid_trash_detection(class_name, confidence, x1, y1, x2, y2, frame) ==
    LET width == x2 - x1
        height == y2 - y1
        area == width * height
        frame_area == frame[1] * frame[2]
    IN  IF 1000 * area < 2 * frame_area \/ 100 * area > 15 * frame_area
        THEN FALSE
        ELSE IF 5 * width < height \/ width > 5 * height
        THEN FALSE
        ELSE confidence >= required_conf(class_name)

\* the conditions of _detect_with_yolo, lines 277 and 279
yolo_keeps(box, frame, threshold) ==
    /\ box.cls \in trash_classes
    /\ box.conf > threshold
    /\ is_valid_trash_detection(box.cls, box.conf, box.xyxy[1], box.xyxy[2],
                                box.xyxy[3], box.xyxy[4], HalfPixels(frame))

\* AdvancedTrashDetector._detect_with_yolo(frame).  outcome.boxes are the
\* boxes the loop handled: all of them, or, when an exception was raised,
\* those handled before it; the except clause logs, and the list built so
\* far is returned (line 292).
detect_with_yolo(outcome, frame, threshold) ==
    LET kept == SelectSeq(outcome.boxes,
                          LAMBDA box : yolo_keeps(box, frame, threshold))
    IN  [i \in 1..Len(kept) |->
           [class |-> kept[i].cls,
            confidence |-> kept[i].conf,
            bbox |-> <<IntOf(kept[i].xyxy[1]), IntOf(kept[i].xyxy[2]),
                       IntOf(kept[i].xyxy[3]), IntOf(kept[i].xyxy[4])>>,
            center |-> <<IntMid(kept[i].xyxy[1], kept[i].xyxy[3]),
                         IntMid(kept[i].xyxy[2], kept[i].xyxy[4])>>,
            rotation |-> 0,
            source |-> "yolo"]]

Contour(color_name, x, y, w, h, area, roi_ok) ==
    [color_name |-> color_name, x |-> x, y |-> y, w |-> w, h |-> h,
     area |-> area, roi_ok |-> roi_ok]

\* the dictionary a contour-based strategy appends
ContourDetection(c, class, confidence, source) ==
    [class |-> class,
     confidence |-> confidence,
     bbox |-> <<c.x, c.y, c.x + c.w, c.y + c.h>>,
     center |-> <<c.x + c.w \div 2, c.y + c.h \div 2>>,
     rotation |-> 0,
     source |-> source]

\* _detect_by_color, line 368: white plastic, 0.8 < w / h < 1.2, area > 2000,
\* and the white ratio of the region above 0.3
color_cup(c) ==
    /\ c.area > 500
    /\ c.color_name = "white_plastic"
    /\ 8 * c.h < 10 * c.w /\ 10 * c.w < 12 * c.h
    /\ c.area > 2000
    /\ c.roi_ok

\* _detect_by_color, line 391: the elif branch, 0.4 < w / h < 0.6,
\* area > 3000, and the edge ratio of the region above 0.05
color_bottle(c) ==
    /\ c.area > 500
    /\ ~ (c.color_name = "white_plastic"
          /\ 8 * c.h < 10 * c.w /\ 10 * c.w < 12 * c.h /\ c.area > 2000)
    /\ c.color_name \in {"clear_plastic", "green_bottle", "blue_bottle"}
    /\ 4 * c.h < 10 * c.w /\ 10 * c.w < 6 * c.h
    /\ c.area > 3000
    /\ c.roi_ok

\* AdvancedTrashDetector._detect_by_color(frame).  outcome.contours are the
\* contours the loops handled: all of them, or those handled before an
\* exception; the list built so far is returned (line 416).
detect_by_color(outcome) ==
    LET kept == SelectSeq(outcome.contours,
                          LAMBDA c : color_cup(c) \/ color_bottle(c))
    IN  [i \in 1..Len(kept) |->
           ContourDetection(kept[i],
                            IF color_cup(kept[i]) THEN "cup" ELSE "bottle",
                            750, "color")]

\* _detect_by_shape, line 468: 0.85 < w / h < 1.15, area > 8000, and
\* HoughCircles finds a circle in the region
shape_cup(c) ==
    /\ c.area > 5000
    /\ 85 * c.h < 100 * c.w /\ 100 * c.w < 115 * c.h
    /\ c.area > 8000
    /\ c.roi_ok

\* _detect_by_shape, line 499: the elif branch, 0.35 < w / h < 0.55,
\* area > 10000, and the vertical edge ratio of the region above 0.1
shape_bottle(c) ==
    /\ c.area > 5000
    /\ ~ (85 * c.h < 100 * c.w /\ 100 * c.w < 115 * c.h /\ c.area > 8000)
    /\ 35 * c.h < 100 * c.w /\ 100 * c.w < 55 * c.h
    /\ c.area > 10000
    /\ c.roi_ok

\* AdvancedTrashDetector._detect_by_shape(frame); the list built before an
\* exception is returned (line 532)
detect_by_shape(outcome) ==
    LET kept == SelectSeq(outcome.contours,
                          LAMBDA c : shape_cup(c) \/ shape_bottle(c))
    IN  [i \in 1..Len(kept) |->
           ContourDetection(kept[i],
                            IF shape_cup(kept[i]) THEN "cup" ELSE "bottle",
                            700, "shape")]

\* the list of the frame before is kept when a call begins
all_detections_carried == deduplicated

\* detect_trash, line 159: all_detections = []
all_detections_initial == <<>>

\* detect_trash, lines 159-179, with each strategy deduplicated on its own
fuse_per_strategy(yolo, color, shape) ==
    remove_duplicate_detections(yolo, DefaultIouThreshold)
    \o remove_duplicate_detections(color, DefaultIouThreshold)
    \o remove_duplicate_detections(shape, DefaultIouThreshold)

\* detect_trash, lines 159-179: the three lists are joined in the order
\* yolo, color, shape and deduplicated together at the default threshold
fuse(yolo, color, shape) ==
    remove_duplicate_detections(all_detections_initial \o yolo \o color \o shape,
                                DefaultIouThreshold)

\* the comparisons of line 193 made with >= and <=
away_from_edges_inclusive(det, frame) ==
    LET frame_height == frame[1]
        frame_width == frame[2]
        margin20 == Min(frame_width, frame_height)
    IN  /\ 20 * det.bbox[1] >= margin20
        /\ 20 * det.bbox[2] >= margin20
        /\ 20 * det.bbox[3] <= 20 * frame_width - margin20
        /\ 20 * det.bbox[4] <= 20 * frame_height - margin20

\* detect_trash, lines 190-194: margin = min(frame_width, frame_height) * 0.05,
\* compared in twentieths of a pixel
away_from_edges(det, frame) ==
    LET frame_height == frame[1]
        frame_width == frame[2]
        margin20 == Min(frame_width, frame_height)
    IN  /\ 20 * det.bbox[1] > margin20
        /\ 20 * det.bbox[2] > margin20
        /\ 20 * det.bbox[3] < 20 * frame_width - margin20
        /\ 20 * det.bbox[4] < 20 * frame_height - margin20

\* detect_trash, lines 183-195
edge_filter(dets, frame) == SelectSeq(dets, LAMBDA det : away_from_edges(det, frame))

(* Fusion scenario: one 640 x 480 frame is given to                        *)
(* AdvancedTrashDetector.detect_trash.  Each strategy sees at most         *)
(* MaxPerStrategy distinct objects.                                        *)

MaxPerStrategy == 2

\* Raw boxes of the primary model (half pixels), in the order the model
\* gives them, by descending confidence: a class that is not in
\* trash_classes (1), a bottle at x 100..200 (2), bottles of 20 x 30 pixels
\* (under 0.2% of the frame) (3), of 240 x 200 pixels (over 15%) (4), of
\* 20 x 120 pixels (width / height under 0.2) (5) and of 20 x 100 pixels
\* (width / height 0.2) (6), a class of trash_classes that min_confidence
\* does not list (7), a bottle at the minimum confidence of its class at
\* x 130..230 (8) and a cup (9).
PrimaryPool ==
    << RawBox("person", 950, <<800, 200, 1000, 600>>),
       RawBox("bottle", 900, <<200, 200, 400, 600>>),
       RawBox("bottle", 900, <<600, 200, 640, 260>>),
       RawBox("bottle", 900, <<200, 200, 680, 600>>),
       RawBox("bottle", 900, <<600, 400, 640, 640>>),
       RawBox("bottle", 900, <<600, 400, 640, 600>>),
       RawBox("wine glass", 840, <<800, 200, 1000, 600>>),
       RawBox("bottle", 750, <<260, 200, 460, 600>>),
       RawBox("cup",    720, <<800, 600, 1000, 800>>) >>

\* Contours of the colour masks: a green bottle at x 130..230 (1), a white
\* cup where the primary model sees its cup (2), a white cup whose left
\* side is at the margin of the frame, 24 pixels (3).
ColorPool ==
    << Contour("green_bottle",  130, 100, 100, 200, 15000, TRUE),
       Contour("white_plastic", 400, 300, 100, 100,  7000, TRUE),
       Contour("white_plastic",  24, 100,  60,  60,  3000, TRUE) >>

\* Contours of the edge map: a bottle at x 160..260 (1), a cup where the
\* other strategies see theirs (2), a bottle where the colour masks see
\* theirs (3).
ShapePool ==
    << Contour("edges", 160, 100, 100, 200, 15000, TRUE),
       Contour("edges", 400, 300, 100, 100,  9000, TRUE),
       Contour("edges", 130, 100, 100, 200, 15000, TRUE) >>

(* A second frame, of 100 x 100 pixels, whose margin is 5 pixels.          *)

SmallFrame == <<100, 100>>

\* a bottle of 20 x 50 pixels
SmallPrimaryPool ==
    << RawBox("bottle", 900, <<60, 40, 100, 140>>) >>

\* White cups: one 6 pixels from every edge (1), one whose right side is 5
\* pixels from the edge (2), one whose corner is inside the margin (3).
SmallColorPool ==
    << Contour("white_plastic", 6, 6, 88, 88, 7000, TRUE),
       Contour("white_plastic", 35, 20, 60, 60, 3000, TRUE),
       Contour("white_plastic", 2, 2, 50, 50, 2200, TRUE) >>

\* a contour of 88 x 88 pixels, too small to be a cup by its shape
SmallShapePool ==
    << Contour("edges", 6, 6, 88, 88, 7000, TRUE) >>

PrimaryPoolOf(frame) == IF frame = SmallFrame THEN SmallPrimaryPool ELSE PrimaryPool

ColorPoolOf(frame) == IF frame = SmallFrame THEN SmallColorPool ELSE ColorPool

ShapePoolOf(frame) == IF frame = SmallFrame THEN SmallShapePool ELSE ShapePool

\* the lists of at most n distinct elements of a pool
ListsOf(pool, n) ==
    { [i \in 1..Len(ix) |-> pool[ix[i]]] :
        ix \in { f \in UNION { [1..k -> 1..Len(pool)] : k \in 0..n } :
                   \A i, j \in DOMAIN f : i # j => f[i] # f[j] } }

\* what the primary model can do: return its boxes, or raise, at the call
\* or once the first box has been handled
PrimaryOutcomes(pool) ==
    { [status |-> "raise", boxes |-> b] : b \in SubSeqsOf(pool, 1) }
    \cup { [status |-> "ok", boxes |-> b] : b \in SubSeqsOf(pool, MaxPerStrategy) }

\* what the image operations of a contour strategy can do: give the
\* contours, or raise, at the start or once the first contour has been
\* handled
ContourOutcomes(pool) ==
    { [status |-> "raise", contours |-> c] : c \in ListsOf(pool, 1) }
    \cup { [status |-> "ok", contours |-> c] : c \in ListsOf(pool, MaxPerStrategy) }

(* A malformed frame: an empty buffer, of 0 x 0 pixels.  The model call    *)
(* and cv2.cvtColor raise on it before any box or contour is handled; a    *)
(* null frame does the same, and its shape is read only inside the         *)
(* strategies and in the loop over the deduplicated detections.            *)

EmptyFrame == <<0, 0>>

\* _detect_with_yolo, lines 223-290, on a frame
PrimaryOutcomesOn(frame) ==
    IF frame = EmptyFrame
    THEN { [status |-> "raise", boxes |-> <<>>] }
    ELSE PrimaryOutcomes(PrimaryPoolOf(frame))

\* _detect_by_color, lines 323-414, and _detect_by_shape, lines 445-530,
\* on a frame
ContourOutcomesOn(frame, pool) ==
    IF frame = EmptyFrame
    THEN { [status |-> "raise", contours |-> <<>>] }
    ELSE ContourOutcomes(pool)

InitFusion ==
    /\ pc = "call"
    /\ models \in { {"primary"}, {} }
    /\ confidence_threshold \in {300, 800}
    /\ in_frame \in { <<480, 640>>, SmallFrame, EmptyFrame }
    /\ primary_results = NotRun
    /\ color_contours = [status |-> "skipped", contours |-> <<>>]
    /\ shape_contours = [status |-> "skipped", contours |-> <<>>]
    /\ yolo_detections = <<>> /\ color_detections = <<>> /\ shape_detections = <<>>
    /\ deduplicated = <<>> /\ final_detections = <<>>
    /\ load_outcomes = <<>> /\ history = <<>>
    /\ constructed = [models |-> models, confidence_threshold |-> confidence_threshold]
    /\ model = "None" /\ raw = <<>> /\ candidates = <<>> /\ result = <<>>
    /\ in_box = <<>> /\ in_angle = 0 /\ rotated = <<>> /\ adjusted = <<>>
    /\ IdleDedup /\ IdleIou /\ IdleFilter /\ IdleHost

\* AdvancedTrashDetector.detect_trash(frame), lines 159-197: p, c and s are
\* what the primary model, the colour masks and the edge map give on the
\* frame; the primary model is called only if it was loaded
detect_trash(frame, p, c, s) ==
    LET yolo == IF "primary" \in models
                THEN detect_with_yolo(p, frame, confidence_threshold)
                ELSE <<>>
        color == detect_by_color(c)
        shape == detect_by_shape(s)
        filtered == fuse(yolo, color, shape)
    IN  /\ primary_results' = (IF "primary" \in models THEN p ELSE NotRun)
        /\ color_contours' = c
        /\ shape_contours' = s
        /\ yolo_detections' = yolo
        /\ color_detections' = color
        /\ shape_detections' = shape
        /\ deduplicated' = filtered
        /\ final_detections' = edge_filter(filtered, frame)
        /\ UNCHANGED <<models, confidence_threshold>>

\* AdvancedTrashDetector.detect_trash(frame), one call
FusionDetectTrash ==
    /\ pc = "call"
    /\ \E p \in PrimaryOutcomesOn(in_frame) :
       \E c \in ContourOutcomesOn(in_frame, ColorPoolOf(in_frame)) :
       \E s \in ContourOutcomesOn(in_frame, ShapePoolOf(in_frame)) :
          detect_trash(in_frame, p, c, s)
    /\ pc' = "fused"
    /\ UNCHANGED <<in_frame, model, raw, candidates, result,
                   in_box, in_angle, rotated, adjusted,
                   load_outcomes, constructed, history,
                   dedupVars, iouVars, filterVars, hostVars>>

NextFusion == FusionDetectTrash

SpecFusion == InitFusion /\ [][NextFusion]_vars

(* The life of a detector: AdvancedTrashDetector is constructed, then      *)
(* given at most MaxCalls frames.  A frame is one of a few scenes; what    *)
(* the model and the image operations give on a scene is fixed.            *)

MaxCalls == 3

\* the four model_candidates of _load_models, line 111
model_candidates == 1..4

\* a detector that holds a model whatever the candidates did
load_models_always(outcomes) == {"primary"}

\* _load_models, lines 109-133: the first candidate that loads becomes
\* models['primary']; a candidate that fails is skipped
load_models(outcomes) ==
    IF \E i \in model_candidates : outcomes[i] = "ok" THEN {"primary"} ELSE {}

Scene(frame, p, c, s) == [frame |-> frame, primary |-> p, color |-> c, shape |-> s]

\* Scenes: three bottles in a chain (1), nothing (2), a cup seen by the
\* three strategies and a cup at the margin (3), a frame on which the model
\* raises at the call (4).
Scenes ==
    << Scene(<<480, 640>>,
             [status |-> "ok", boxes |-> <<PrimaryPool[2]>>],
             [status |-> "ok", contours |-> <<ColorPool[1]>>],
             [status |-> "ok", contours |-> <<ShapePool[1]>>]),
       Scene(<<480, 640>>,
             [status |-> "ok", boxes |-> <<>>],
             [status |-> "ok", contours |-> <<>>],
             [status |-> "ok", contours |-> <<>>]),
       Scene(<<480, 640>>,
             [status |-> "ok", boxes |-> <<PrimaryPool[9]>>],
             [status |-> "ok", contours |-> <<ColorPool[2], ColorPool[3]>>],
             [status |-> "ok", contours |-> <<ShapePool[2]>>]),
       Scene(<<480, 640>>,
             [status |-> "raise", boxes |-> <<>>],
             [status |-> "ok", contours |-> <<ColorPool[2]>>],
             [status |-> "ok", contours |-> <<>>]) >>

InitFrames ==
    /\ pc = "new"
    /\ models = {} /\ confidence_threshold = 0
    /\ in_frame = <<>>
    /\ primary_results = NotRun
    /\ color_contours = [status |-> "skipped", contours |-> <<>>]
    /\ shape_contours = [status |-> "skipped", contours |-> <<>>]
    /\ yolo_detections = <<>> /\ color_detections = <<>> /\ shape_detections = <<>>
    /\ deduplicated = <<>> /\ final_detections = <<>>
    /\ load_outcomes = <<>> /\ constructed = <<>> /\ history = <<>>
    /\ model = "None" /\ raw = <<>> /\ candidates = <<>> /\ result = <<>>
    /\ in_box = <<>> /\ in_angle = 0 /\ rotated = <<>> /\ adjusted = <<>>
    /\ IdleDedup /\ IdleIou /\ IdleFilter /\ IdleHost

\* AdvancedTrashDetector.__init__(confidence_threshold)
Construct ==
    /\ pc = "new"
    /\ \E threshold \in {300, 800} :
       \E outcomes \in [model_candidates -> {"ok", "fail"}] :
          /\ confidence_threshold' = threshold
          /\ models' = load_models(outcomes)
          /\ load_outcomes' = outcomes
          /\ constructed' = [models |-> load_models(outcomes),
                             confidence_threshold |-> threshold]
    /\ pc' = "ready"
    /\ UNCHANGED <<in_frame, primary_results, color_contours, shape_contours,
                   yolo_detections, color_detections, shape_detections,
                   deduplicated, final_detections, history,
                   model, raw, candidates, result,
                   in_box, in_angle, rotated, adjusted,
                   dedupVars, iouVars, filterVars, hostVars>>

\* AdvancedTrashDetector.detect_trash(frame) on the next frame
NextFrame ==
    /\ pc = "ready"
    /\ Len(history) < MaxCalls
    /\ \E k \in 1..Len(Scenes) :
          /\ in_frame' = Scenes[k].frame
          /\ detect_trash(Scenes[k].frame, Scenes[k].primary,
                          Scenes[k].color, Scenes[k].shape)
          /\ history' = Append(history, [scene |-> k, returned |-> final_detections'])
    /\ pc' = "ready"
    /\ UNCHANGED <<load_outcomes, constructed, model, raw, candidates, result,
                   in_box, in_angle, rotated, adjusted,
                   dedupVars, iouVars, filterVars, hostVars>>

NextFrames == Construct \/ NextFrame

SpecFrames == InitFrames /\ [][NextFrames]_vars

------------------------------------------------------------------------------
(* Properties of the deduplication (SpecDedup) *)

Returned == pc \in {"returned", "returned_td"}

\* the threshold the call made used: the parameter, or the 0.5 written into
\* TrashDetector._remove_duplicate_detections
UsedThreshold == IF pc \in {"returned_td", "twice_td"} THEN <<1, 2>> ELSE iou_threshold

Overlap(d, e) == FracGT(calculate_iou(d.bbox, e.bbox), UsedThreshold)

Pos(d) == CHOOSE i \in 1..Len(given) : given[i] = d

\* d is processed before e: higher confidence first, input order among equals
Before(d, e) ==
    \/ d.confidence > e.confidence
    \/ d.confidence = e.confidence /\ Pos(d) < Pos(e)

Accepted == Range(filtered_detections)

TwoCups == << DedupPool[1], DedupPool[2] >>

\* C2: candidates are processed in descending confidence and one is accepted
\* iff no detection accepted before it has the same class and an IoU strictly
\* above the threshold with it; so no two accepted detections of one class
\* overlap above the threshold, every removed detection has an accepted
\* same-class detection of at least its confidence overlapping it above the
\* threshold, and the two-cup scenario returns only the 0.9 cup.
C2_GreedyAcceptance ==
    Returned =>
        /\ Accepted \subseteq Range(given)
        /\ \A d \in Range(given) :
              d \in Accepted <=>
                ~ \E e \in Accepted :
                     Before(e, d) /\ e.class = d.class /\ Overlap(e, d)
        /\ \A d, e \in Accepted :
              d # e /\ d.class = e.class => ~ Overlap(d, e)
        /\ \A d \in Range(given) \ Accepted :
              \E e \in Accepted :
                 e.class = d.class /\ e.confidence >= d.confidence /\ Overlap(e, d)
        /\ (Range(given) = Range(TwoCups) /\ UsedThreshold = <<1, 2>>)
              => filtered_detections = << TwoCups[1] >>

\* the two-cup scenario has run
C2_Witness ==
    /\ pc = "returned"
    /\ given = TwoCups
    /\ iou_threshold = <<1, 2>>
    /\ filtered_detections = << TwoCups[1] >>

\* an accepted pair whose IoU equals the threshold exactly
C2_WitnessAtThreshold ==
    /\ Returned
    /\ \E d, e \in Accepted :
          d # e /\ d.class = e.class
          /\ FracEQ(calculate_iou(d.bbox, e.bbox), UsedThreshold)

\* C3: a detection is removed only on account of an accepted detection of its
\* own class; one that no other detection of its class overlaps above the
\* threshold survives, whatever detections of other classes share its box;
\* a list of two detections of different classes is returned whole.
C3_SameClassOnly ==
    Returned =>
        /\ \A d \in Range(given) \ Accepted :
              \E e \in Accepted : e # d /\ e.class = d.class /\ Overlap(e, d)
        /\ \A d \in Range(given) :
              (\A e \in Range(given) :
                   e # d /\ e.class = d.class => ~ Overlap(e, d))
                => d \in Accepted
        /\ (Len(given) = 2 /\ given[1].class # given[2].class)
              => Accepted = Range(given)

\* two accepted detections of different classes with one and the same box
C3_Witness ==
    /\ Returned
    /\ \E d, e \in Accepted :
          /\ d.class # e.class
          /\ d.bbox = e.bbox
          /\ calculate_iou(d.bbox, e.bbox) = <<Area(d.bbox), Area(d.bbox)>>
          /\ Pos(d) < Pos(e) /\ d.confidence <= e.confidence

\* C4: deduplicating the returned list returns it unchanged, as an ordered list.
C4_Idempotent ==
    pc \in {"twice", "twice_td"} => again = filtered_detections

\* a second pass over a result that kept two detections of equal confidence
\* and dropped one
C4_Witness ==
    /\ pc = "twice"
    /\ Len(again) >= 2
    /\ Len(again) < Len(given)
    /\ \E i, j \in 1..Len(again) : i < j /\ again[i].confidence = again[j].confidence

\* C5: the returned list is in non-increasing confidence order and detections
\* of equal confidence keep the order they had in the input list (lists of
\* length 0 and 1 included).
C5_StableDescending ==
    Returned =>
        \A i, j \in 1..Len(filtered_detections) :
            i < j =>
               /\ filtered_detections[i].confidence >= filtered_detections[j].confidence
               /\ filtered_detections[i].confidence = filtered_detections[j].confidence
                     => Pos(filtered_detections[i]) < Pos(filtered_detections[j])

\* the sort moved a detection forward and the result holds a tie
C5_Witness ==
    /\ Returned
    /\ Len(given) >= 3
    /\ given[1].confidence < given[Len(given)].confidence
    /\ \E i, j \in 1..Len(filtered_detections) :
          i < j /\ filtered_detections[i].confidence = filtered_detections[j].confidence

\* lists of length 0 and 1 take the early return
C5_WitnessShort == Returned /\ Len(given) <= 1 /\ filtered_detections = given

------------------------------------------------------------------------------
(* Properties of calculate_iou (SpecIou) *)

IouReturned == pc \in {"returned", "returned_td"}

\* C6: for well-formed boxes the result is 1.0 for identical boxes, 0.0 for
\* boxes that share no area (touching along an edge or at a corner included),
\* area(B)/area(A) when one box lies within the other, and never negative nor
\* above 1.  Shared area is counted in unit cells, not by the code's min/max.
C6_IouValues ==
    IouReturned =>
        LET A == Pixels(in_bbox1)
            B == Pixels(in_bbox2)
        IN  /\ in_bbox1 = in_bbox2 => iou[1] = iou[2] /\ iou[2] > 0
            /\ A \cap B = {} => iou = <<0, 1>>
            /\ B \subseteq A => FracEQ(iou, <<Cardinality(B), Cardinality(A)>>)
            /\ A \subseteq B => FracEQ(iou, <<Cardinality(A), Cardinality(B)>>)
            /\ iou[2] > 0 /\ 0 <= iou[1] /\ iou[1] <= iou[2]

\* a box strictly inside another one
C6_Witness ==
    /\ pc = "returned"
    /\ Pixels(in_bbox2) \subseteq Pixels(in_bbox1)
    /\ in_bbox1 # in_bbox2
    /\ iou = <<Area(in_bbox2), Area(in_bbox1)>>
    /\ iou[1] < iou[2]

\* two boxes that touch at one corner only
C6_WitnessCorner ==
    /\ IouReturned
    /\ in_bbox1[3] = in_bbox2[1] /\ in_bbox1[4] = in_bbox2[2]
    /\ iou = <<0, 1>>

------------------------------------------------------------------------------
(* Properties of the rotation mapping (SpecRot) *)

\* C7: adjust_rotated_coords returns (y1, H-x2, y2, H-x1) for 90,
\* (W-x2, H-y2, W-x1, H-y1) for 180, (W-y2, x1, W-y1, x2) for 270 and the box
\* unchanged for 0 and any other angle, W and H being the original width and
\* height.
C7_AdjustFormulas ==
    pc = "adjusted" =>
        LET x1 == in_box[1]
            y1 == in_box[2]
            x2 == in_box[3]
            y2 == in_box[4]
            H == in_frame[1]
            W == in_frame[2]
        IN  /\ in_angle = 90 => adjusted = <<y1, H - x2, y2, H - x1>>
            /\ in_angle = 180 => adjusted = <<W - x2, H - y2, W - x1, H - y1>>
            /\ in_angle = 270 => adjusted = <<W - y2, x1, W - y1, x2>>
            /\ in_angle \notin {90, 180, 270} => adjusted = in_box

\* a 90 degree mapping in a frame that is not square
C7_Witness ==
    /\ pc = "adjusted"
    /\ in_angle = 90
    /\ in_frame[1] # in_frame[2]
    /\ adjusted # in_box
    /\ adjusted = <<in_box[2], in_frame[1] - in_box[3], in_box[4], in_frame[1] - in_box[1]>>

Abs(n) == IF n >= 0 THEN n ELSE -n

\* C8: a box inside the W x H frame, carried into the rotated frame the way
\* rotate_image carries its pixels and mapped back with the original W and H,
\* is recovered within one pixel, for 90, 180 and 270, square frame or not.
C8_RoundTrip ==
    (pc = "roundtrip" /\ in_angle \in {90, 180, 270}) =>
        \A i \in 1..4 : Abs(adjusted[i] - in_box[i]) <= 1

\* a round trip through a quarter turn of a frame that is not square, with a
\* box that the turn moved
C8_Witness ==
    /\ pc = "roundtrip"
    /\ in_angle \in {90, 270}
    /\ Abs(in_frame[1] - in_frame[2]) >= 2
    /\ rotated # in_box
    /\ adjusted = in_box

------------------------------------------------------------------------------
(* Properties of is_likely_trash (SpecFilter) *)

\* the ratio box area / frame area of the call made
RelativeArea == <<Area(in_box), in_frame[1] * in_frame[2]>>

\* the table entry the claim names: the one of the class, or 'default'
ExpectedParams ==
    IF in_class \in DOMAIN DETECTION_FILTERS
    THEN DETECTION_FILTERS[in_class]
    ELSE DETECTION_FILTERS["default"]

\* C9: is_likely_trash returns true iff min_area < box_area / frame_area <
\* max_area and confidence > min_confidence, every inequality strict, with
\* the table entry of the class or, for a class without one, the 'default'
\* entry; the bottle at 0.8 with box (100,100)-(200,200) in 640 x 480 passes.
C9_ClassFilter ==
    pc = "filtered" =>
        /\ likely <=>
              /\ FracGT(RelativeArea, <<ExpectedParams.min_area, 2000>>)
              /\ FracGT(<<ExpectedParams.max_area, 2000>>, RelativeArea)
              /\ in_confidence > ExpectedParams.min_confidence
        /\ (FracEQ(RelativeArea, <<ExpectedParams.min_area, 2000>>)
            \/ FracEQ(RelativeArea, <<ExpectedParams.max_area, 2000>>)
            \/ in_confidence = ExpectedParams.min_confidence) => ~ likely
        /\ (in_class = "bottle" /\ in_confidence = 800
            /\ in_box = <<100, 100, 200, 200>> /\ in_frame = <<480, 640>>) => likely

\* a class without a table entry, its area exactly on the default upper bound
C9_Witness ==
    /\ pc = "filtered"
    /\ in_class \notin DOMAIN DETECTION_FILTERS
    /\ FracEQ(RelativeArea, <<400, 2000>>)
    /\ in_confidence > 300
    /\ ~ likely

\* the spec's bottle scenario
C9_WitnessScenario ==
    /\ pc = "filtered"
    /\ in_class = "bottle" /\ in_confidence = 800
    /\ in_box = <<100, 100, 200, 200>> /\ in_frame = <<480, 640>>
    /\ likely

\* a class without a table entry that passes on the default entry
C9_WitnessDefault ==
    /\ pc = "filtered"
    /\ in_class \notin DOMAIN DETECTION_FILTERS
    /\ likely

------------------------------------------------------------------------------
(* Properties of the rotation-invariant path (SpecYolo) *)

\* the raw box is of a tracked class, its raw confidence is strictly above
\* the base threshold, and it passes the filter of its class with its area
\* taken relative to the area of the original frame
Qualifies(box) ==
    LET ratio == <<Area(box.xyxy), 4 * in_frame[1] * in_frame[2]>>
        params == IF box.cls \in DOMAIN DETECTION_FILTERS
                  THEN DETECTION_FILTERS[box.cls]
                  ELSE DETECTION_FILTERS["default"]
    IN  /\ box.cls \in TRASH_CLASSES
        /\ box.conf > confidence_threshold
        /\ FracGT(ratio, <<params.min_area, 2000>>)
        /\ FracGT(<<params.max_area, 2000>>, ratio)
        /\ box.conf > params.min_confidence

CandidatesOf(a) == SelectSeq(candidates, LAMBDA d : d.rotation = a)

QualifiersOf(a) == SelectSeq(raw[a].boxes, Qualifies)

\* C10: at each of the four passes the raw outputs that become candidates
\* are exactly those of a tracked class, with raw confidence strictly above
\* the base threshold, that pass the class filter on the original frame's
\* area; the candidates of the unrotated pass carry rotation 0 (and every
\* candidate carries the angle of its pass).
C10_CandidateIff ==
    pc = "done" =>
        /\ \A d \in Range(candidates) : d.rotation \in Passes
        /\ \A a \in Passes :
              /\ Len(CandidatesOf(a)) = Len(QualifiersOf(a))
              /\ \A i \in 1..Len(QualifiersOf(a)) :
                    CandidatesOf(a)[i].class = QualifiersOf(a)[i].cls
        /\ \A i \in 1..Len(QualifiersOf(0)) :
              CandidatesOf(0)[i].confidence = QualifiersOf(0)[i].conf

\* the unrotated pass returned a box whose confidence is the threshold
\* itself, which is dropped, and a rotated pass returned one that became a
\* candidate
C10_Witness ==
    /\ pc = "done"
    /\ \E i \in 1..Len(raw[0].boxes) :
          /\ raw[0].boxes[i].conf = confidence_threshold
          /\ raw[0].boxes[i].cls \in TRASH_CLASSES
    /\ CandidatesOf(0) = <<>>
    /\ \E a \in {90, 180, 270} : Len(CandidatesOf(a)) = 1 /\ Len(raw[a].boxes) = 1

\* an unrotated survivor next to a raw box of a class that is not tracked
C10_WitnessUnrotated ==
    /\ pc = "done"
    /\ Len(raw[0].boxes) = 2
    /\ Len(CandidatesOf(0)) = 1
    /\ \E i \in 1..2 : raw[0].boxes[i].cls \notin TRASH_CLASSES

------------------------------------------------------------------------------
(* Properties of the rotated passes (SpecYolo) *)

\* where a box of the frame turned by a lies in the original frame, in the
\* unit of the raw box (half pixels), then truncated to whole pixels
MappedBackPixels(xyxy, a) ==
    LET H2 == 2 * in_frame[1]
        W2 == 2 * in_frame[2]
        back == IF a = 90 THEN <<xyxy[2], H2 - xyxy[3], xyxy[4], H2 - xyxy[1]>>
                ELSE IF a = 180
                     THEN <<W2 - xyxy[3], H2 - xyxy[4], W2 - xyxy[1], H2 - xyxy[2]>>
                ELSE IF a = 270 THEN <<W2 - xyxy[4], xyxy[1], W2 - xyxy[2], xyxy[3]>>
                ELSE xyxy
    IN  [i \in 1..4 |-> back[i] \div 2]

\* C11: a detection of a rotated pass carries the angle of the pass, the raw
\* box mapped back to the original frame, and the raw confidence times 0.9,
\* once; a detection of the unrotated pass keeps the raw confidence; the
\* detections returned are candidates as they were created.
C11_RotationPenaltyOnce ==
    pc = "done" =>
        /\ \A a \in {90, 180, 270} :
              \A i \in 1..Len(CandidatesOf(a)) :
                 /\ i <= Len(QualifiersOf(a))
                 /\ CandidatesOf(a)[i].rotation = a
                 /\ CandidatesOf(a)[i].bbox = MappedBackPixels(QualifiersOf(a)[i].xyxy, a)
                 /\ 1000 * CandidatesOf(a)[i].confidence = 900 * QualifiersOf(a)[i].conf
        /\ \A i \in 1..Len(CandidatesOf(0)) :
              /\ i <= Len(QualifiersOf(0))
              /\ CandidatesOf(0)[i].confidence = QualifiersOf(0)[i].conf
              /\ CandidatesOf(0)[i].bbox = MappedBackPixels(QualifiersOf(0)[i].xyxy, 0)
        /\ Range(result) \subseteq Range(candidates)

\* a quarter-turn pass and the unrotated pass each gave a detection, both
\* are returned, and the rotated one has nine tenths of its raw confidence
C11_Witness ==
    /\ pc = "done"
    /\ Len(CandidatesOf(0)) = 1
    /\ \E a \in {90, 270} :
          /\ Len(CandidatesOf(a)) = 1
          /\ CandidatesOf(a)[1].confidence < raw[a].boxes[1].conf
          /\ CandidatesOf(a)[1].bbox # <<raw[a].boxes[1].xyxy[1] \div 2,
                                         raw[a].boxes[1].xyxy[2] \div 2,
                                         raw[a].boxes[1].xyxy[3] \div 2,
                                         raw[a].boxes[1].xyxy[4] \div 2>>
          /\ CandidatesOf(a)[1] \in Range(result)
    /\ Len(result) = 2


------------------------------------------------------------------------------
(* Properties of the merge of the four passes (SpecYolo) *)

Idx == 1..Len(candidates)

\* candidate i is processed before candidate j by the deduplication
Ranked(i, j) ==
    \/ candidates[i].confidence > candidates[j].confidence
    \/ candidates[i].confidence = candidates[j].confidence /\ i < j

\* two candidates of one class whose boxes overlap with IoU > 0.5
SameObject(i, j) ==
    /\ i # j
    /\ candidates[i].class = candidates[j].class
    /\ FracGT(calculate_iou(candidates[i].bbox, candidates[j].bbox), <<1, 2>>)

\* the candidates the greedy rule accepts: i is accepted iff no accepted
\* candidate processed before it is of its class and overlaps it
GreedyKept ==
    CHOOSE K \in SUBSET Idx :
        \A i \in Idx : i \in K <=> ~ \E j \in K : Ranked(j, i) /\ SameObject(j, i)

\* the k-th accepted candidate in processing order
KeptAt(k) ==
    CHOOSE i \in GreedyKept : Cardinality({ j \in GreedyKept : Ranked(j, i) }) = k - 1

\* the result is deduplicate(pass0 ++ pass90 ++ pass180 ++ pass270)
ReturnsDedupOfPasses ==
    /\ candidates = CandidatesOf(0) \o CandidatesOf(90)
                    \o CandidatesOf(180) \o CandidatesOf(270)
    /\ Len(result) = Cardinality(GreedyKept)
    /\ \A k \in 1..Len(result) : result[k] = candidates[KeptAt(k)]

\* the detections of one object: candidates of one class, found at more than
\* one orientation, whose boxes all overlap one another, and no further
\* candidate overlaps all of them
ObjectGroup(S) ==
    /\ Cardinality(S) >= 2
    /\ \A i, j \in S : i # j => SameObject(i, j)
    /\ \E i, j \in S : candidates[i].rotation # candidates[j].rotation
    /\ ~ \E k \in Idx \ S : \A i \in S : SameObject(k, i)

\* exactly one member of S is returned, and none of S has more confidence
HighestAloneSurvives(S) ==
    /\ Cardinality(S \cap GreedyKept) = 1
    /\ \A s \in S \cap GreedyKept :
          \A i \in S : candidates[s].confidence >= candidates[i].confidence

\* a detection of a rotated pass that overlaps no other candidate of its
\* class is returned
LoneRotatedSurvives ==
    \A i \in Idx :
        (candidates[i].rotation # 0 /\ ~ \E j \in Idx : SameObject(j, i))
        => i \in GreedyKept /\ candidates[i] \in Range(result)

\* C12 as stated: the result is the deduplication of the four passes; of
\* the detections of one object at several orientations exactly one
\* survives, the one of highest adjusted confidence; a detection found by a
\* rotated pass alone is returned.
C12_HighestOfObjectSurvives ==
    pc = "done" =>
        /\ ReturnsDedupOfPasses
        /\ \A S \in SUBSET Idx : ObjectGroup(S) => HighestAloneSurvives(S)
        /\ LoneRotatedSurvives

\* C12, amended: the result is the deduplication of the four passes; of the
\* detections of one object at several orientations exactly one survives,
\* the one of highest adjusted confidence, provided that no candidate of the
\* class outside the group overlaps a member with IoU > 0.5 (a member
\* suppressed by such a candidate leaves a lower member to survive); a
\* detection found by a rotated pass alone is returned.
C12_MergeOfPasses ==
    pc = "done" =>
        /\ ReturnsDedupOfPasses
        /\ \A S \in SUBSET Idx :
              (ObjectGroup(S) /\ ~ \E k \in Idx \ S : \E i \in S : SameObject(k, i))
              => HighestAloneSurvives(S)
        /\ LoneRotatedSurvives

\* the unrotated pass and the pass at 90 degrees found the same bottle: the
\* unrotated detection, of higher adjusted confidence, alone is returned
C12_Witness ==
    /\ pc = "done"
    /\ Len(candidates) = 2
    /\ candidates[1].rotation = 0 /\ candidates[2].rotation = 90
    /\ SameObject(1, 2)
    /\ candidates[2].confidence < candidates[1].confidence
    /\ result = <<candidates[1]>>

\* a bottle found by the pass at 90 degrees alone, next to an unrotated
\* detection that does not overlap it: both are returned
C12_WitnessLoneRotated ==
    /\ pc = "done"
    /\ Len(candidates) = 2
    /\ candidates[1].rotation = 0 /\ candidates[2].rotation = 90
    /\ ~ SameObject(1, 2)
    /\ Len(result) = 2
    /\ candidates[2] \in Range(result)

\* the chain: the rotated detection is suppressed by an unrotated one, and
\* a third detection that overlaps the rotated one alone is returned
C12_WitnessChain ==
    /\ pc = "done"
    /\ \E i, j, k \in Idx :
          /\ SameObject(i, j) /\ SameObject(j, k) /\ ~ SameObject(i, k)
          /\ candidates[j].rotation # candidates[k].rotation
          /\ Ranked(i, j) /\ Ranked(j, k)
          /\ candidates[j] \notin Range(result)
          /\ candidates[k] \in Range(result)


------------------------------------------------------------------------------
(* Properties of the failure of one orientation (SpecYolo) *)

Raised(a) == raw[a].status = "raise"

\* the orientation a was attempted and gave its survivors: none if the
\* model raised, one for each raw box that qualifies otherwise
Contributes(a) ==
    /\ raw[a].status \in {"ok", "raise"}
    /\ Len(CandidatesOf(a)) = Len(QualifiersOf(a))

\* C13 as stated: when the model raises at one of the four orientations,
\* that orientation contributes nothing and the others are still run,
\* merged, deduplicated and returned.
C13_FailureIsolated ==
    (pc = "done" /\ model = "loaded") =>
        \A a \in Passes :
            Raised(a) =>
                /\ CandidatesOf(a) = <<>>
                /\ \A b \in Passes \ {a} : Contributes(b)
                /\ ReturnsDedupOfPasses

\* what the code does give: a rotated orientation that raises contributes
\* nothing and leaves the unrotated pass and the other rotated passes in
\* the merge
C13_RotatedFailureIsolated ==
    (pc = "done" /\ model = "loaded" /\ ~ Raised(0)) =>
        /\ \A a \in Passes : Contributes(a)
        /\ \A a \in Passes : Raised(a) => CandidatesOf(a) = <<>>
        /\ ReturnsDedupOfPasses

\* the model raised on the frame itself: the empty list is returned and no
\* rotated orientation was tried
C13_Witness ==
    /\ pc = "done"
    /\ model = "loaded"
    /\ Raised(0)
    /\ result = <<>>
    /\ \A a \in {90, 180, 270} : raw[a].status = "skipped"

\* the model raised at 90 degrees only: the unrotated detection and the one
\* of another rotated pass are returned
C13_WitnessRotated ==
    /\ pc = "done"
    /\ Raised(90) /\ ~ Raised(180) /\ ~ Raised(270)
    /\ Len(CandidatesOf(0)) = 1
    /\ Len(CandidatesOf(180)) + Len(CandidatesOf(270)) = 1
    /\ Len(result) = 2


------------------------------------------------------------------------------
(* Properties of the fusion detector (SpecFusion) *)

Fused == pc = "fused"

\* A ++ B ++ C: the outputs of the model, colour and shape strategies
AllCandidates == yolo_detections \o color_detections \o shape_detections

FusionOverlap(d, e) == FracGT(calculate_iou(d.bbox, e.bbox), <<1, 2>>)

CandidatePos(d) == CHOOSE i \in 1..Len(AllCandidates) : AllCandidates[i] = d

\* d is processed before e by the deduplication of A ++ B ++ C
FusionBefore(d, e) ==
    \/ d.confidence > e.confidence
    \/ d.confidence = e.confidence /\ CandidatePos(d) < CandidatePos(e)

\* same class, different strategies, IoU above 0.5
CrossStrategyDuplicates(d, e) ==
    /\ d.source # e.source
    /\ d.class = e.class
    /\ FusionOverlap(d, e)

\* farther than 5% of the smaller frame side from every edge of the frame
InsideMargins(d) ==
    LET W == in_frame[2]
        H == in_frame[1]
        m == IF W < H THEN W ELSE H
    IN  /\ 100 * d.bbox[1] > 5 * m
        /\ 100 * d.bbox[2] > 5 * m
        /\ 100 * (W - d.bbox[3]) > 5 * m
        /\ 100 * (H - d.bbox[4]) > 5 * m

\* the result is the edge filter of the deduplicated list, and the
\* deduplicated list is the greedy deduplication of A ++ B ++ C at 0.5:
\* in processing order, a candidate is accepted iff no candidate accepted
\* before it has its class and overlaps it with IoU > 0.5
ReturnsEdgeFilterOfDedup ==
    /\ final_detections = SelectSeq(deduplicated, InsideMargins)
    /\ Range(deduplicated) \subseteq Range(AllCandidates)
    /\ \A i, j \in 1..Len(deduplicated) :
          i < j => FusionBefore(deduplicated[i], deduplicated[j])
    /\ \A d \in Range(AllCandidates) :
          d \in Range(deduplicated)
          <=> ~ \E e \in Range(deduplicated) :
                  /\ FusionBefore(e, d)
                  /\ e.class = d.class
                  /\ FusionOverlap(e, d)

\* C1 as stated: detect_trash returns edgeFilter(deduplicate(A ++ B ++ C))
\* at threshold 0.5, and of two same-class candidates of different
\* strategies that overlap with IoU > 0.5 the one of lower confidence never
\* appears in the result.
C1_OnlyHigherAppears ==
    Fused =>
        /\ ReturnsEdgeFilterOfDedup
        /\ \A d, e \in Range(AllCandidates) :
              CrossStrategyDuplicates(d, e) /\ d.confidence > e.confidence
              => e \notin Range(final_detections)

\* C1, amended: detect_trash returns edgeFilter(deduplicate(A ++ B ++ C)) at
\* threshold 0.5 regardless of source; two same-class candidates of different
\* strategies that overlap with IoU > 0.5 never both appear in the result,
\* and the one of lower confidence appears only when the other was itself
\* removed as a duplicate of an accepted candidate of its class that has at
\* least its confidence.
C1_FusionDedup ==
    Fused =>
        /\ ReturnsEdgeFilterOfDedup
        /\ \A d, e \in Range(AllCandidates) :
              CrossStrategyDuplicates(d, e) =>
                 /\ ~ (d \in Range(final_detections) /\ e \in Range(final_detections))
                 /\ d.confidence > e.confidence /\ e \in Range(final_detections)
                    => \E f \in Range(deduplicated) :
                          /\ f # d
                          /\ f.class = d.class
                          /\ f.confidence >= d.confidence
                          /\ FusionOverlap(f, d)

\* two strategies report the same object and the result holds the report of
\* higher confidence only, while another candidate is dropped at the edge
C1_Witness ==
    /\ Fused
    /\ \E d, e \in Range(AllCandidates) :
          /\ CrossStrategyDuplicates(d, e)
          /\ d.confidence > e.confidence
          /\ d \in Range(final_detections)
          /\ e \notin Range(final_detections)
    /\ Len(final_detections) < Len(deduplicated)

\* the chain: the colour bottle is removed by the model's bottle, and the
\* shape bottle that overlaps the colour bottle alone is returned
C1_WitnessChain ==
    /\ Fused
    /\ \E d, e \in Range(AllCandidates) :
          /\ CrossStrategyDuplicates(d, e)
          /\ d.confidence > e.confidence
          /\ e \in Range(final_detections)
          /\ d \notin Range(deduplicated)

\* candidates of equal confidence: the one listed first is returned
C1_WitnessTie ==
    /\ Fused
    /\ \E d, e \in Range(AllCandidates) :
          /\ CrossStrategyDuplicates(d, e)
          /\ d.confidence = e.confidence
          /\ d.source = "yolo" /\ e.source = "color"
          /\ d \in Range(final_detections)
          /\ e \notin Range(deduplicated)

------------------------------------------------------------------------------
(* Properties of the model strategy of the fusion detector (SpecFusion) *)

\* the raw output qualifies for fusion: allow-listed class, confidence above
\* the base threshold, area within [0.2%, 15%] of the frame, width / height
\* within [0.2, 5.0], confidence at least the minimum of the class (0.85
\* for a class the table does not list)
ValidForFusion(box) ==
    LET w == box.xyxy[3] - box.xyxy[1]
        h == box.xyxy[4] - box.xyxy[2]
        ratio == <<w * h, 4 * in_frame[1] * in_frame[2]>>
        needed == IF box.cls \in DOMAIN min_confidence
                  THEN min_confidence[box.cls] ELSE 850
    IN  /\ box.cls \in trash_classes
        /\ box.conf > confidence_threshold
        /\ FracGE(ratio, <<2, 1000>>) /\ FracGE(<<15, 100>>, ratio)
        /\ h > 0 /\ FracGE(<<w, h>>, <<1, 5>>) /\ FracGE(<<5, 1>>, <<w, h>>)
        /\ box.conf >= needed

ValidRaw == SelectSeq(primary_results.boxes, ValidForFusion)

\* C14: the detections of the model strategy are, in order, the raw outputs
\* that qualify for fusion, with their class and confidence; a raw output
\* that fails one of the conditions is not emitted.
C14_ModelStrategyFilter ==
    Fused =>
        /\ Len(yolo_detections) = Len(ValidRaw)
        /\ \A i \in 1..Len(yolo_detections) :
              /\ i <= Len(ValidRaw)
              /\ yolo_detections[i].class = ValidRaw[i].cls
              /\ yolo_detections[i].confidence = ValidRaw[i].conf
              /\ yolo_detections[i].source = "yolo"

\* a wine glass, allow-listed and absent from the table, at 0.84 is dropped
\* next to a bottle at the minimum of its class, which is emitted
C14_Witness ==
    /\ Fused
    /\ Len(primary_results.boxes) = 2
    /\ \E i \in 1..2 :
          /\ primary_results.boxes[i].cls \in trash_classes \ DOMAIN min_confidence
          /\ primary_results.boxes[i].conf > confidence_threshold
          /\ primary_results.boxes[i].conf < 850
    /\ Len(yolo_detections) = 1
    /\ yolo_detections[1].confidence = min_confidence[yolo_detections[1].class]

\* a raw output is dropped for its area, or for its shape, alone
C14_WitnessGeometry ==
    /\ Fused
    /\ Len(primary_results.boxes) = 1
    /\ primary_results.boxes[1].cls = "bottle"
    /\ primary_results.boxes[1].conf = 900
    /\ yolo_detections = <<>>

\* margin = 0.05 * min(frameWidth, frameHeight), as a fraction
Margin == <<5 * (IF in_frame[2] < in_frame[1] THEN in_frame[2] ELSE in_frame[1]), 100>>

\* the distances of the four sides of a box from their edges of the frame
EdgeDistances(d) ==
    << d.bbox[1], d.bbox[2], in_frame[2] - d.bbox[3], in_frame[1] - d.bbox[4] >>

\* C15: a deduplicated detection is returned iff x1 > margin, y1 > margin,
\* x2 < frameWidth - margin and y2 < frameHeight - margin; one with a side
\* exactly at the margin from its edge is dropped, one whose sides are all
\* a pixel farther than the margin is returned; the margin is 24 for
\* 640 x 480.
C15_EdgeFilter ==
    Fused =>
        /\ in_frame = <<480, 640>> => FracEQ(Margin, <<24, 1>>)
        /\ Range(final_detections) \subseteq Range(deduplicated)
        /\ \A d \in Range(deduplicated) :
              /\ d \in Range(final_detections)
                 <=> \A k \in 1..4 : FracGT(<<EdgeDistances(d)[k], 1>>, Margin)
              /\ (\E k \in 1..4 : FracEQ(<<EdgeDistances(d)[k], 1>>, Margin))
                 => d \notin Range(final_detections)
              /\ (\A k \in 1..4 : FracEQ(<<EdgeDistances(d)[k] - 1, 1>>, Margin))
                 => d \in Range(final_detections)

\* in the 100 x 100 frame the cup that is 6 pixels from every edge is
\* returned and the cup whose right side is 5 pixels from the edge is not
C15_Witness ==
    /\ Fused
    /\ in_frame = SmallFrame
    /\ Len(deduplicated) = 2
    /\ \E d \in Range(deduplicated) :
          /\ \A k \in 1..4 : EdgeDistances(d)[k] = 6
          /\ final_detections = <<d>>
    /\ \E d \in Range(deduplicated) :
          /\ EdgeDistances(d)[3] = 5
          /\ \A k \in {1, 2, 4} : EdgeDistances(d)[k] > 5
          /\ d \notin Range(final_detections)

\* in the 640 x 480 frame a cup whose left side is at 24 is dropped
C15_WitnessAtMargin ==
    /\ Fused
    /\ in_frame = <<480, 640>>
    /\ \E d \in Range(deduplicated) :
          /\ d.bbox[1] = 24
          /\ d.bbox[2] > 24 /\ d.bbox[3] < 616 /\ d.bbox[4] < 456
          /\ d \notin Range(final_detections)

\* the strategies whose processing raised
FailedStrategies ==
    (IF primary_results.status = "raise" THEN {"yolo"} ELSE {})
    \cup (IF color_contours.status = "raise" THEN {"color"} ELSE {})
    \cup (IF shape_contours.status = "raise" THEN {"shape"} ELSE {})

\* C16 as stated: a strategy that raises, at whatever point, contributes no
\* detection to the fusion of the frame, and the others still reach the
\* deduplication and the edge filter.
C16_FailedStrategyIsEmpty ==
    Fused =>
        /\ \A d \in Range(AllCandidates) : d.source \notin FailedStrategies
        /\ ReturnsEdgeFilterOfDedup

\* what the code does give: the call returns, the fusion is made of what
\* each strategy built, and a strategy that raised before it handled
\* anything contributes nothing
C16_FailureCaught ==
    Fused =>
        /\ ReturnsEdgeFilterOfDedup
        /\ (primary_results.status = "raise" /\ primary_results.boxes = <<>>)
           => yolo_detections = <<>>
        /\ (color_contours.status = "raise" /\ color_contours.contours = <<>>)
           => color_detections = <<>>
        /\ (shape_contours.status = "raise" /\ shape_contours.contours = <<>>)
           => shape_detections = <<>>

\* the colour strategy raised after it had appended a detection: the
\* detection is returned
C16_Witness ==
    /\ Fused
    /\ FailedStrategies = {"color"}
    /\ Len(color_detections) = 1
    /\ color_detections[1] \in Range(final_detections)

\* the primary model raised at the call: the colour and shape detections
\* are fused and returned
C16_WitnessOthersFused ==
    /\ Fused
    /\ FailedStrategies = {"yolo"}
    /\ yolo_detections = <<>>
    /\ color_detections # <<>> /\ shape_detections # <<>>
    /\ final_detections # <<>>

(* Properties of a detector's life (SpecFrames) *)

NoneLoaded ==
    /\ load_outcomes # <<>>
    /\ \A i \in model_candidates : load_outcomes[i] = "fail"

\* C17: when none of the candidate models loads, construction still
\* completes, the detector holds no model on any later frame, the model
\* strategy is never run, and every frame's result is the edge filter of
\* the deduplicated colour and shape detections only.
C17_NoModelLoaded ==
    (pc = "ready" /\ NoneLoaded) =>
        /\ models = {}
        /\ primary_results = NotRun
        /\ yolo_detections = <<>>
        /\ history # <<>> =>
              final_detections =
                  edge_filter(remove_duplicate_detections(
                                  color_detections \o shape_detections,
                                  DefaultIouThreshold), in_frame)

C17_Witness ==
    /\ pc = "ready" /\ NoneLoaded
    /\ Len(history) >= 2
    /\ final_detections # <<>>
    /\ history[1].returned # <<>>

\* C19: the detector's fields are those it had when construction returned,
\* and two calls on the same frame return the same list whatever frames
\* were processed between them.
C19_NoStateAcrossFrames ==
    pc = "ready" =>
        /\ [models |-> models, confidence_threshold |-> confidence_threshold]
               = constructed
        /\ \A i, j \in 1..Len(history) :
              history[i].scene = history[j].scene =>
                  history[i].returned = history[j].returned

C19_Witness ==
    /\ pc = "ready"
    /\ Len(history) = 3
    /\ history[1].scene = history[3].scene
    /\ history[2].scene # history[1].scene
    /\ history[1].returned # <<>>
    /\ history[2].returned # history[1].returned
    /\ "primary" \in models

(* Properties of a call on a malformed frame (SpecFusion) *)

\* C18: a call of detect_trash on a malformed frame never returns a
\* detection list: it ends by reporting an error to the caller.
C18_MalformedFrameFails ==
    in_frame = EmptyFrame => pc # "fused"

C18_Witness ==
    /\ in_frame = EmptyFrame
    /\ pc = "fused"
    /\ "primary" \in models
    /\ primary_results.status = "raise"
    /\ color_contours.status = "raise"
    /\ shape_contours.status = "raise"
    /\ final_detections = <<>>

(* Properties of the boxes returned (SpecYolo, SpecFusion) *)

\* C20: every detection returned by YOLOModel.detect_trash or by
\* AdvancedTrashDetector.detect_trash has a box with x1 < x2 and y1 < y2.
C20_BoxesWellFormed ==
    /\ \A i \in 1..Len(result) : WellFormed(result[i].bbox)
    /\ \A i \in 1..Len(final_detections) : WellFormed(final_detections[i].bbox)

C20_Witness ==
    /\ pc = "done"
    /\ \E i \in 1..Len(result) :
          /\ result[i].bbox[1] = result[i].bbox[3]
          /\ result[i].bbox[2] < result[i].bbox[4]
          /\ result[i].rotation = 0
    /\ \E i \in 1..Len(result) :
          /\ WellFormed(result[i].bbox)
          /\ result[i].rotation # 0

(* Properties of the stored centre (SpecYolo) *)

\* the midpoint of a stored box
MidpointOf(bbox) == <<(bbox[1] + bbox[3]) \div 2, (bbox[2] + bbox[4]) \div 2>>

\* C21: the stored centre of every returned detection is the midpoint of
\* the box the detection carries, ((x1 + x2) div 2, (y1 + y2) div 2).
C21_CenterIsMidpoint ==
    /\ \A i \in 1..Len(result) : result[i].center = MidpointOf(result[i].bbox)
    /\ \A i \in 1..Len(final_detections) :
          final_detections[i].center = MidpointOf(final_detections[i].bbox)

C21_Witness ==
    /\ pc = "done"
    /\ \E i \in 1..Len(result) :
          /\ result[i].class = "cup"
          /\ result[i].bbox = <<100, 100, 201, 200>>
          /\ result[i].center = <<151, 150>>
    /\ \E i \in 1..Len(result) :
          /\ result[i].rotation # 0
          /\ result[i].center = MidpointOf(result[i].bbox)

(* Properties of the record returned (SpecYolo, SpecFusion) *)

DetectionFields == {"class", "confidence", "bbox", "center", "rotation", "source"}

\* C22: every returned detection carries the fields class, confidence,
\* bbox, center, rotation and source, and its source is one of "model",
\* "color" and "shape".
C22_FieldsAndSource ==
    /\ \A i \in 1..Len(result) :
          /\ DOMAIN result[i] = DetectionFields
          /\ result[i].source \in {"model", "color", "shape"}
    /\ \A i \in 1..Len(final_detections) :
          /\ DOMAIN final_detections[i] = DetectionFields
          /\ final_detections[i].source \in {"model", "color", "shape"}

C22_Witness ==
    /\ pc = "done"
    /\ \E i, j \in 1..Len(result) :
          /\ result[i].rotation = 0 /\ result[j].rotation # 0
          /\ DOMAIN result[i] = DetectionFields \ {"source"}
          /\ DOMAIN result[j] = DetectionFields \ {"source"}

C22_WitnessFusion ==
    /\ pc = "fused"
    /\ \E i, j \in 1..Len(final_detections) :
          /\ DOMAIN final_detections[i] = DetectionFields
          /\ final_detections[i].source = "yolo"
          /\ final_detections[j].source \in {"color", "shape"}

(* Properties of what deduplication leaves (SpecDedup) *)

\* the detections of a list, each with the number of times it occurs
BagOf(s) ==
    [d \in { s[i] : i \in 1..Len(s) } |-> Cardinality({ i \in 1..Len(s) : s[i] = d })]

\* every detection of s occurs in t at least as often as in s
Within(s, t) ==
    \A d \in DOMAIN BagOf(s) :
        d \in DOMAIN BagOf(t) /\ BagOf(s)[d] <= BagOf(t)[d]

\* C23: every detection returned by remove_duplicate_detections is a
\* detection of the input, with all its fields as given, no detection is
\* returned more often than it was given, and the caller's list holds the
\* same detections after the call as before, in some order.
C23_DedupOnlySelects ==
    pc \in {"returned", "twice"} =>
        /\ Within(filtered_detections, given)
        /\ BagOf(detections) = BagOf(given)
        /\ pc = "twice" => Within(again, filtered_detections)

C23_Witness ==
    /\ pc = "returned"
    /\ Len(given) = 3
    /\ Len(filtered_detections) = 2
    /\ detections # given
    /\ filtered_detections[1] = given[3]

(* Properties of a box mapped back from a rotated frame (SpecRot) *)

\* the shape <<height, width>> of rotate_image(frame, angle)
RotatedShape(frame, angle) ==
    IF angle \in {90, 270} THEN <<frame[2], frame[1]>> ELSE frame

BoxWidth(b) == b[3] - b[1]

BoxHeight(b) == b[4] - b[2]

\* C24: for the angles 90, 180 and 270, a well-formed box inside the rotated
\* frame is mapped back to a well-formed box inside the original frame,
\* with width and height exchanged for 90 and 270 and kept for 180, so that
\* its area and the outcome of the relative-area filter are those of the
\* box in the rotated frame.
C24_MappedBackInsideFrame ==
    (/\ pc = "adjusted"
     /\ in_angle \in {90, 180, 270}
     /\ InFrame(in_box, RotatedShape(in_frame, in_angle)[2],
                        RotatedShape(in_frame, in_angle)[1])) =>
        /\ InFrame(adjusted, in_frame[2], in_frame[1])
        /\ IF in_angle = 180
           THEN /\ BoxWidth(adjusted) = BoxWidth(in_box)
                /\ BoxHeight(adjusted) = BoxHeight(in_box)
           ELSE /\ BoxWidth(adjusted) = BoxHeight(in_box)
                /\ BoxHeight(adjusted) = BoxWidth(in_box)
        /\ Area(adjusted) = Area(in_box)
        /\ \A cls \in {"bottle", "cup"} :
              is_likely_trash(cls, 900, adjusted[1], adjusted[2],
                              adjusted[3], adjusted[4], in_frame)
              <=> is_likely_trash(cls, 900, in_box[1], in_box[2], in_box[3],
                                  in_box[4], RotatedShape(in_frame, in_angle))

C24_Witness ==
    /\ pc = "adjusted"
    /\ in_angle = 90
    /\ in_frame = <<2, 3>>
    /\ in_box = <<1, 0, 2, 2>>
    /\ adjusted = <<0, 0, 2, 1>>
    /\ ~ is_likely_trash("bottle", 900, 0, 0, 2, 1, in_frame)

C24_WitnessAccepted ==
    /\ pc = "adjusted"
    /\ in_angle = 270
    /\ in_frame = <<3, 2>>
    /\ in_box = <<2, 1, 3, 2>>
    /\ adjusted = <<0, 2, 1, 3>>
    /\ is_likely_trash("bottle", 900, adjusted[1], adjusted[2],
                       adjusted[3], adjusted[4], in_frame)

-------------------------------------------------------------------------------
(* pi_trash_detection.py: PiTrashDetectionSystem drives an ArduinoController *)
(* from the frames of a video source.  One step is one iteration of the     *)
(* loop of process_video: a frame is read and given to the detector, the    *)
(* detections are handed to the motor control, then a key is handled.  The  *)
(* code compares differences of time.time() values only, so each time       *)
(* field is kept as its age in ticks of 0.5 s, saturating at MaxAge; an     *)
(* iteration takes 1..MaxGap ticks.                                         *)

MaxAge == 7

MaxGap == 2

\* a time field that is still 0
Never == -1

\* time.time() - field
Age(a) == IF a = Never THEN MaxAge ELSE a

\* the age of a field dt ticks later
Older(a, dt) ==
    IF a = Never THEN Never
    ELSE IF a + dt > MaxAge THEN MaxAge ELSE a + dt

\* what detect_trash returned on a frame: nothing, detections whose best
\* confidence is not above the threshold, or a detection above it
FrameKinds == {"empty", "weak", "strong"}

\* the last n elements of a sequence
LastN(q, n) == IF Len(q) <= n THEN q ELSE SubSeq(q, Len(q) - n + 1, Len(q))

\* one operation asked of the motor controller: the method, the command
\* (for an operation the system decided itself, "move" or "stop" in the
\* optimized system; else the key pressed), whether it was written to the
\* link, and the age of last_detection_time (of last_stop_time, for a stop
\* decided by the system) when it was asked
Call(op, command, sent, after) ==
    [op |-> op, command |-> command, sent |-> sent, after |-> after]

\* ArduinoController.__init__: 1.0 s
command_cooldown == 2

\* PiTrashDetectionSystem.__init__: 3.0 s, and 2 frames
detection_cooldown == 6

min_consecutive_detections == 2

\* ArduinoController.send_command(command): TRUE iff the command is written
send_command(connected, age) ==
    /\ connected
    /\ ~ (Age(age) < command_cooldown)

\* the keys handled by process_video that the scenario presses
PiKeys == {"none", "x", "w", "q"}

InitPi ==
    /\ pc = "running"
    /\ simulate_motors = FALSE
    /\ is_connected \in BOOLEAN
    /\ last_command_age = (IF is_connected THEN 0 ELSE Never)
    /\ last_detection_age = Never
    /\ last_stop_age = Never
    /\ consecutive_detections = 0
    /\ recent = <<>>
    /\ controller_calls = <<>>
    /\ motion = "stopped"
    /\ IdleDedup /\ IdleIou /\ IdleRot /\ IdleFilter /\ IdleYolo /\ IdleFusion
    /\ IdleCollector

\* one iteration of the loop of PiTrashDetectionSystem.process_video
PiLoopIteration ==
    /\ pc = "running"
    /\ \E kind \in FrameKinds : \E dt \in 1..MaxGap : \E key \in PiKeys :
        LET det_age == Older(last_detection_age, dt)
            cmd_age == Older(last_command_age, dt)
            \* process_detections_for_motor_control, lines 416-438
            blocked == kind # "empty" /\ Age(det_age) < detection_cooldown
            counted == IF kind = "empty" THEN 0
                       ELSE IF blocked \/ kind = "weak" THEN consecutive_detections
                       ELSE consecutive_detections + 1
            moves == /\ kind = "strong" /\ ~ blocked
                     /\ counted >= min_consecutive_detections
            move_sent == moves /\ send_command(is_connected, cmd_age)
            cmd_age_then == IF move_sent THEN 0 ELSE cmd_age
            det_age_then == IF moves THEN 0 ELSE det_age
            \* the key, lines 345-382
            key_sent == key \in {"x", "w"} /\ send_command(is_connected, cmd_age_then)
        IN  /\ consecutive_detections' = (IF moves THEN 0 ELSE counted)
            /\ last_detection_age' = det_age_then
            /\ last_command_age' = (IF key_sent THEN 0 ELSE cmd_age_then)
            /\ controller_calls' =
                  (IF moves
                   THEN <<Call("move_towards_trash", "w", move_sent, Age(det_age))>>
                   ELSE <<>>)
                  \o (IF key = "x"
                      THEN <<Call("stop_motor", "x", key_sent, Age(det_age_then))>>
                      ELSE IF key = "w"
                      THEN <<Call("send_command", "w", key_sent, Age(det_age_then))>>
                      ELSE <<>>)
            /\ motion' = (IF key = "x" THEN "stopped"
                          ELSE IF moves \/ key = "w" THEN "moving"
                          ELSE motion)
            /\ recent' = LastN(Append(recent, kind), 3)
            \* 'q' leaves the loop; the finally clause disconnects
            /\ pc' = (IF key = "q" THEN "stopped" ELSE "running")
            /\ is_connected' = (IF key = "q" THEN FALSE ELSE is_connected)
    /\ UNCHANGED <<simulate_motors, last_stop_age, collectorVars,
                   dedupVars, iouVars, rotVars, filterVars, yoloVars, fusionVars>>

NextPi == PiLoopIteration

SpecPi == InitPi /\ [][NextPi]_vars

(* Properties of the motor control of PiTrashDetectionSystem (SpecPi) *)

\* the calls of a method in the last loop iteration
CallsOf(op) ==
    { controller_calls[i] : i \in { j \in 1..Len(controller_calls) :
                                        controller_calls[j].op = op } }

\* C25: a move-towards-trash command is issued only when this frame and
\* the frame before it both held a detection above the threshold, and at
\* least detection_cooldown after the move before it.
C25_MoveAfterConsecutiveFrames ==
    \A c \in CallsOf("move_towards_trash") :
        /\ Len(recent) >= 2
        /\ recent[Len(recent)] = "strong"
        /\ recent[Len(recent) - 1] = "strong"
        /\ c.after >= detection_cooldown

C25_Witness ==
    /\ CallsOf("move_towards_trash") # {}
    /\ recent = <<"strong", "weak", "strong">>

\* C27: while the controller is connected, every call of stop_motor writes
\* the stop command 'x' to the serial link.
C27_StopAlwaysWritten ==
    \A c \in CallsOf("stop_motor") :
        is_connected => c.command = "x" /\ c.sent

C27_Witness ==
    /\ is_connected
    /\ controller_calls = << Call("move_towards_trash", "w", TRUE, MaxAge),
                             Call("stop_motor", "x", FALSE, 0) >>

C27_WitnessWritten ==
    /\ is_connected
    /\ \E c \in CallsOf("stop_motor") : c.sent
    /\ motion = "stopped"

-------------------------------------------------------------------------------
(* optimized_pi_trash_detection.py: OptimizedPiTrashDetectionSystem drives *)
(* an RCCarController, or no controller at all when simulate_motors is     *)
(* set.  One step is one iteration of the loop of process_video on a frame *)
(* that is not skipped.                                                    *)

\* RCCarController.__init__: 0.1 s, less than one tick; for whole ages,
\* age < 0.2 ticks iff age < 1
RCCar_command_cooldown == 1

\* OptimizedPiTrashDetectionSystem.__init__: 1.0 s, 1 frame, 3.0 s, 2.0 s
Optimized_detection_cooldown == 2

Optimized_min_consecutive_detections == 1

no_detection_timeout == 6

stop_cooldown == 4

\* RCCarController.send_rc_command(steer_angle, throttle): TRUE iff the
\* command is sent
send_rc_command(connected, age) ==
    /\ connected
    /\ ~ (Age(age) < RCCar_command_cooldown)

\* the keys handled by process_video: stop, a speed digit, quit
OptimizedKeys == {"none", "x", "speed", "q"}

InitOptimized ==
    /\ pc = "running"
    /\ simulate_motors \in BOOLEAN
    /\ is_connected \in (IF simulate_motors THEN {FALSE} ELSE BOOLEAN)
    /\ last_command_age = Never
    /\ last_detection_age = Never
    /\ last_stop_age = Never
    /\ consecutive_detections = 0
    /\ recent = <<>>
    /\ controller_calls = <<>>
    /\ motion = "stopped"
    /\ IdleDedup /\ IdleIou /\ IdleRot /\ IdleFilter /\ IdleYolo /\ IdleFusion
    /\ IdleCollector

\* one iteration of the loop of OptimizedPiTrashDetectionSystem.process_video
OptimizedLoopIteration ==
    /\ pc = "running"
    /\ \E kind \in FrameKinds : \E dt \in 1..MaxGap : \E key \in OptimizedKeys :
        LET det_age == Older(last_detection_age, dt)
            stop_age == Older(last_stop_age, dt)
            cmd_age == Older(last_command_age, dt)
            \* process_detections_for_motor_control, lines 410-451
            blocked == kind # "empty" /\ Age(det_age) < Optimized_detection_cooldown
            counted == IF kind = "empty" THEN 0
                       ELSE IF blocked \/ kind = "weak" THEN consecutive_detections
                       ELSE consecutive_detections + 1
            moves == /\ kind = "strong" /\ ~ blocked
                     /\ counted >= Optimized_min_consecutive_detections
            \* check_no_detection_timeout, lines 453-472
            stops == /\ kind = "empty"
                     /\ det_age # Never
                     /\ det_age > no_detection_timeout
                     /\ Age(stop_age) > stop_cooldown
            auto_sent == /\ (moves \/ stops) /\ ~ simulate_motors
                         /\ send_rc_command(is_connected, cmd_age)
            cmd_age_then == IF auto_sent THEN 0 ELSE cmd_age
            det_age_then == IF moves THEN 0 ELSE IF stops THEN Never ELSE det_age
            auto_calls ==
                IF moves
                THEN <<Call(IF simulate_motors THEN "log" ELSE "move_towards_trash",
                            "move", auto_sent, Age(det_age))>>
                ELSE IF stops
                THEN <<Call(IF simulate_motors THEN "log" ELSE "stop_motor",
                            "stop", auto_sent, Age(stop_age))>>
                ELSE <<>>
            \* the key, lines 358-384, and the finally clause, lines 398-403:
            \* with simulate_motors the controller is None, so that calling
            \* a method of it raises AttributeError
            on_none == simulate_motors /\ key # "none"
            key_sent == /\ key \in {"x", "speed"} /\ ~ simulate_motors
                        /\ send_rc_command(is_connected, cmd_age_then)
            key_calls ==
                IF on_none THEN <<Call("None", key, FALSE, Age(det_age_then))>>
                ELSE IF key = "x"
                THEN <<Call("stop_motor", "x", key_sent, Age(det_age_then))>>
                ELSE IF key = "speed"
                THEN <<Call("set_speed", "speed", key_sent, Age(det_age_then))>>
                ELSE IF key = "q"
                THEN <<Call("disconnect", "q", is_connected, Age(det_age_then))>>
                ELSE <<>>
        IN  /\ consecutive_detections' = (IF moves THEN 0 ELSE counted)
            /\ last_detection_age' = det_age_then
            /\ last_stop_age' = (IF stops THEN 0 ELSE stop_age)
            /\ last_command_age' = (IF key_sent THEN 0 ELSE cmd_age_then)
            /\ controller_calls' = auto_calls \o key_calls
            /\ motion' = (IF key = "x" /\ ~ simulate_motors THEN "stopped"
                          ELSE IF moves THEN "moving"
                          ELSE IF stops THEN "stopped"
                          ELSE motion)
            /\ recent' = LastN(Append(recent, kind), 3)
            /\ pc' = (IF on_none THEN "raised"
                      ELSE IF key = "q" THEN "stopped"
                      ELSE "running")
            /\ is_connected' = (IF key = "q" THEN FALSE ELSE is_connected)
    /\ UNCHANGED <<simulate_motors, collectorVars,
                   dedupVars, iouVars, rotVars, filterVars, yoloVars, fusionVars>>

NextOptimized == OptimizedLoopIteration

SpecOptimized == InitOptimized /\ [][NextOptimized]_vars

\* the loop keeps taking frames for as long as it has not been left
FairSpecOptimized == SpecOptimized /\ WF_vars(OptimizedLoopIteration)

(* Properties of OptimizedPiTrashDetectionSystem (SpecOptimized,           *)
(* FairSpecOptimized)                                                      *)

\* a move was asked for in the last loop iteration
MoveAsked ==
    \E i \in 1..Len(controller_calls) : controller_calls[i].command = "move"

\* C26: while frames keep being processed, the motors are not left moving
\* for ever without a further move-triggering detection: after a move,
\* a stop is eventually issued unless another move is, and two stops caused
\* by the timeout are at least stop_cooldown apart.
C26_StopAfterTimeout ==
    /\ []<>(motion # "moving" \/ MoveAsked \/ pc # "running")
    /\ [](\A i \in 1..Len(controller_calls) :
             controller_calls[i].command = "stop" =>
                 controller_calls[i].after > stop_cooldown)

C26_Witness ==
    /\ pc = "running"
    /\ motion = "moving"
    /\ last_detection_age = MaxAge
    /\ recent = <<"weak", "weak", "weak">>
    /\ controller_calls = <<>>

\* C28: with simulate_motors set, no operation is invoked on the motor
\* controller, motor actions are only logged, and the video loop and its
\* cleanup end without raising.
C28_SimulationNeedsNoController ==
    simulate_motors =>
        /\ pc # "raised"
        /\ \A i \in 1..Len(controller_calls) : controller_calls[i].op = "log"

C28_Witness ==
    /\ simulate_motors
    /\ pc = "raised"
    /\ \E i \in 1..Len(controller_calls) :
          controller_calls[i].op = "None" /\ controller_calls[i].command = "q"

C28_WitnessLogged ==
    /\ simulate_motors
    /\ pc = "running"
    /\ controller_calls = <<Call("log", "stop", FALSE, MaxAge)>>

-------------------------------------------------------------------------------
(* collection/trash_collector.py: a TrashCollector over an empty data      *)
(* directory.  At most MaxSessions sessions are started, in different      *)
(* seconds, and the sessions hold at most MaxItems detections in all.      *)

MaxSessions == 2

MaxItems == 3

\* TrashItem: the fields the collector reads or writes
TrashItem(class_name) == [class_name |-> class_name, collected |-> FALSE]

\* CollectionSession(session_id=..., start_time=...): the dataclass defaults
CollectionSession(session_id) ==
    [session_id |-> session_id, end_time |-> "None",
     total_items |-> 0, collected_items |-> 0, items |-> <<>>]

\* current_session is None
NoSession == CollectionSession(0)

\* sum(1 for item in items if item.collected)
CollectedCount(items) == Cardinality({ i \in 1..Len(items) : items[i].collected })

\* the session with its end time set and its counters left as they were
EndedUncounted(session) == [session EXCEPT !.end_time = "set"]

\* end_collection_session, lines 94-96: the session as it is saved and
\* returned
Ended(session) ==
    [session EXCEPT !.end_time = "set",
                    !.total_items = Len(session.items),
                    !.collected_items = CollectedCount(session.items)]

\* the counts by class of get_session_statistics, lines 181-187
ClassCounts(items, only_collected) ==
    LET counted == { i \in 1..Len(items) : only_collected => items[i].collected }
    IN  [c \in { items[i].class_name : i \in counted } |->
            Cardinality({ i \in counted : items[i].class_name = c })]

\* get_session_statistics, lines 189-199: the fields that do not hold times
Statistics(session) ==
    [session_id |-> session.session_id,
     ended |-> session.end_time # "None",
     total_items |-> session.total_items,
     collected_items |-> session.collected_items,
     items_by_class |-> ClassCounts(session.items, FALSE),
     collected_by_class |-> ClassCounts(session.items, TRUE)]

\* the detections held by the sessions
RECURSIVE ItemsIn(_)
ItemsIn(sessions) ==
    IF sessions = <<>> THEN 0
    ELSE Len(Head(sessions).items) + ItemsIn(Tail(sessions))

ItemsKnown == ItemsIn(collection_history) + Len(current_session.items)

InitCollector ==
    /\ pc = "idle"
    /\ current_session = NoSession
    /\ collection_history = <<>>
    /\ session_files = {}
    /\ clock = 0
    /\ returned = <<>>
    /\ IdleDedup /\ IdleIou /\ IdleRot /\ IdleFilter /\ IdleYolo /\ IdleFusion
    /\ IdlePi

\* TrashCollector.start_collection_session()
StartCollectionSession ==
    /\ clock < MaxSessions
    /\ clock' = clock + 1
    /\ current_session' = CollectionSession(clock + 1)
    /\ returned' = clock + 1
    /\ pc' = "started"
    /\ UNCHANGED <<collection_history, session_files>>

\* TrashCollector.end_collection_session()
EndCollectionSession ==
    /\ IF current_session = NoSession
       THEN /\ returned' = NoSession
            /\ UNCHANGED <<current_session, collection_history, session_files>>
       ELSE /\ session_files' = session_files \cup {current_session.session_id}
            /\ collection_history' = Append(collection_history, Ended(current_session))
            /\ returned' = Ended(current_session)
            /\ current_session' = NoSession
    /\ pc' = "ended"
    /\ UNCHANGED clock

\* TrashCollector.add_detection(detection)
AddDetection ==
    /\ ItemsKnown < MaxItems
    /\ current_session = NoSession => clock < MaxSessions
    /\ \E class_name \in {"cup", "bottle"} :
          LET started == IF current_session = NoSession
                         THEN CollectionSession(clock + 1)
                         ELSE current_session
          IN  /\ clock' = (IF current_session = NoSession THEN clock + 1 ELSE clock)
              /\ current_session' =
                    [started EXCEPT !.items = Append(@, TrashItem(class_name))]
              /\ returned' = TrashItem(class_name)
    /\ pc' = "added"
    /\ UNCHANGED <<collection_history, session_files>>

\* TrashCollector.mark_item_collected(item), for an item of the current
\* session, or (i = 0) for an item that is in no session
MarkItemCollected ==
    /\ \E i \in 0..Len(current_session.items) :
          IF current_session = NoSession \/ i = 0
          THEN /\ returned' = FALSE
               /\ UNCHANGED current_session
          ELSE /\ current_session' =
                     [current_session EXCEPT !.items[i].collected = TRUE]
               /\ returned' = TRUE
    /\ pc' = "marked"
    /\ UNCHANGED <<collection_history, session_files, clock>>

\* TrashCollector.get_session_statistics(), with no session id
GetSessionStatistics ==
    /\ returned' = (IF current_session = NoSession THEN <<>>
                    ELSE Statistics(current_session))
    /\ pc' = "reported"
    /\ UNCHANGED <<current_session, collection_history, session_files, clock>>

NextCollector ==
    /\ \/ StartCollectionSession
       \/ EndCollectionSession
       \/ AddDetection
       \/ MarkItemCollected
       \/ GetSessionStatistics
    /\ UNCHANGED <<piVars, dedupVars, iouVars, rotVars, filterVars, yoloVars,
                   fusionVars>>

SpecCollector == InitCollector /\ [][NextCollector]_vars

(* Properties of the collection sessions (SpecCollector) *)

C29_WitnessSecondEnd ==
    /\ pc = "ended"
    /\ returned = NoSession
    /\ Len(collection_history) = 1
    /\ collection_history[1].total_items = 2

\* the sum of the counts of a table by class
RECURSIVE SumOfCounts(_)
SumOfCounts(counts) ==
    IF DOMAIN counts = {} THEN 0
    ELSE LET c == CHOOSE x \in DOMAIN counts : TRUE
         IN  counts[c] + SumOfCounts([x \in DOMAIN counts \ {c} |-> counts[x]])

\* C30: during an active session, get_session_statistics() reports
\* total_items equal to the number of detections added to the session and
\* collected_items equal to the number of its items marked collected, as
\* its counts by class do.
C30_StatisticsOfActiveSession ==
    (pc = "reported" /\ current_session # NoSession) =>
        /\ returned.total_items = Len(current_session.items)
        /\ returned.collected_items = CollectedCount(current_session.items)
        /\ returned.total_items = SumOfCounts(returned.items_by_class)
        /\ returned.collected_items = SumOfCounts(returned.collected_by_class)

C30_Witness ==
    /\ pc = "reported"
    /\ Len(current_session.items) = 2
    /\ CollectedCount(current_session.items) = 1
    /\ returned.total_items = 0
    /\ returned.collected_items = 0
    /\ SumOfCounts(returned.items_by_class) = 2
    /\ SumOfCounts(returned.collected_by_class) = 1
====
